---- MODULE Spec2Model ----
(***************************************************************************)
(* Organization provisioning, verification exchange and organization       *)
(* membership of marshal-lms, as a state machine over the rows of the      *)
(* relational store.  Time is counted in minutes.  Identifiers (uuid/cuid) *)
(* are fresh integers drawn from one counter; 0 stands for null.           *)
(***************************************************************************)
EXTENDS Integers, Sequences, FiniteSets, TLC

VARIABLES
    organizations,  \* Organization rows
    users,          \* User rows
    verifications,  \* Verification rows
    sessions,       \* Session rows
    invitations,    \* OrganizationInvitation rows
    activities,     \* OrganizationActivity rows (append-only)
    outbox,         \* calls made to the email client, in order
    rate,           \* fixed-window counter of the rate limiter, per fingerprint
    now,            \* wall clock, minutes
    nextId,         \* next fresh identifier
    req,            \* requests between two awaits: slot -> locals of the handler
    last            \* the response most recently returned by a handler

vars == <<organizations, users, verifications, sessions, invitations,
          activities, outbox, rate, now, nextId, req, last>>


-----------------------------------------------------------------------------
(* Bounds of the model *)

MaxNow == 10
MaxId == 16
MaxLog == 5
MaxWeeks == 1

(* Program constants, in minutes where they are durations *)

RateMax == 3
RateWindow == 10
VerificationTtl == 10
SessionTtl == 43200
CodeLength == 6
MinSeats == 1
MaxSeatsAllowed == 1000
DefaultSeats == 5
InvitationTtl == 10080

TickMinutes == RateWindow \div 2

-----------------------------------------------------------------------------
(* Inputs *)

Slots == {1, 2}
Addrs == {"10.0.0.1", ""}
Fingerprints == {"10.0.0.1", "unknown"}
Slugs == {"acme-corp", "beta"}
AdminEmails == {"ada@acme.com", "bo@beta.io"}
Codes == {"123456", "654321"}
BadCodes == {"12345"}

Idle == [pc |-> "idle"]

NoArgs ==
    [caller |-> 0, email |-> "", code |-> "", slug |-> "", maxSeats |-> 0,
     acceptTerms |-> FALSE, ip |-> "", shield |-> FALSE, token |-> 0,
     role |-> "NONE", memberId |-> 0, invitationId |-> 0]

Response(op, args, http, status, message, cookie, redirectTo) ==
    [seq |-> 1 - last.seq, op |-> op, args |-> args, http |-> http,
     status |-> status, message |-> message, cookie |-> cookie,
     redirectTo |-> redirectTo]

-----------------------------------------------------------------------------
(* Messages *)

MsgTooMany == "Too many signup attempts. Please try again later."
MsgBlocked == "Request blocked. Please contact support if this persists."
MsgSeatsMin == "Must have at least 1 seat"
MsgSeatsMax == "Maximum 1000 seats allowed"
MsgTerms == "You must accept the terms and conditions"
MsgSlugTaken == "Organization slug is already taken. Please choose another."
MsgEmailTaken == "An account with this email already exists. Please sign in instead."
MsgCreated == "Organization created successfully! Please check your email for verification."
MsgUnique == "Organization or email already exists. Please try different values."
MsgFailed == "Failed to create organization. Please try again later."
MsgInvalidInput == "Invalid input data"
MsgInvalidCode == "Invalid or expired verification code"
MsgUserNotFound == "User not found"
MsgVerified == "Email verified successfully"

-----------------------------------------------------------------------------
(* Initial state: an empty store but for three individual accounts that the
   auth framework created at sign-in. *)

IndividualUser(i, e) ==
    [id |-> i, email |-> e, emailVerified |-> TRUE, role |-> "user",
     organizationId |-> 0, organizationRole |-> "NONE",
     joinedOrganizationAt |-> -1]

Init ==
    /\ organizations = {}
    /\ users = {IndividualUser(1, "u1@x.com"), IndividualUser(2, "u2@x.com"),
                IndividualUser(3, "u3@x.com")}
    /\ verifications = {}
    /\ sessions = {}
    /\ invitations = {}
    /\ activities = {}
    /\ outbox = <<>>
    /\ rate = [f \in Fingerprints |-> [win |-> 0, count |-> 0]]
    /\ now = 0
    /\ nextId = 4
    /\ req = [p \in Slots |-> Idle]
    /\ last = [seq |-> 0, op |-> "none", args |-> NoArgs, http |-> 0,
               status |-> "", message |-> "", cookie |-> 0, redirectTo |-> ""]

-----------------------------------------------------------------------------
(* The clock *)

Tick ==
    /\ now + TickMinutes <= MaxNow
    /\ now' = now + TickMinutes
    /\ UNCHANGED <<organizations, users, verifications, sessions, invitations,
                   activities, outbox, rate, nextId, req, last>>

-----------------------------------------------------------------------------
(* Rate limiter: fixedWindow({window: "10m", max: 3}) keyed by fingerprint *)

Fingerprint(ip) == IF ip = "" THEN "unknown" ELSE ip

WindowOf(t) == t \div RateWindow

Attempts(r, fp, t) == IF r[fp].win = WindowOf(t) THEN r[fp].count ELSE 0

\* Mutant: the limiter lets one more attempt through
Decision_OffByOne(r, fp, t, shield) ==
    IF Attempts(r, fp, t) > RateMax THEN "RATE_LIMIT"
    ELSE IF shield THEN "SHIELD"
    ELSE "ALLOW"

Decision(r, fp, t, shield) ==
    IF Attempts(r, fp, t) >= RateMax THEN "RATE_LIMIT"
    ELSE IF shield THEN "SHIELD"
    ELSE "ALLOW"

Protect(r, fp, t) ==
    [r EXCEPT ![fp] = [win |-> WindowOf(t),
                       count |-> IF Attempts(r, fp, t) >= RateMax
                                 THEN Attempts(r, fp, t)
                                 ELSE Attempts(r, fp, t) + 1]]

-----------------------------------------------------------------------------
(* Rows *)

NewOrganization(id, slug, maxSeats, ownerId) ==
    [id |-> id, slug |-> slug, maxSeats |-> maxSeats, ownerId |-> ownerId,
     status |-> "TRIAL"]

\* Mutant: the admin is created already verified
NewAdminUser_Verified(id, email, orgId, t) ==
    [id |-> id, email |-> email, emailVerified |-> TRUE, role |-> "admin",
     organizationId |-> orgId, organizationRole |-> "OWNER",
     joinedOrganizationAt |-> t]

\* Mutant: the provisioned owner gets the default system role
NewAdminUser_DefaultRole(id, email, orgId, t) ==
    [id |-> id, email |-> email, emailVerified |-> FALSE, role |-> "user",
     organizationId |-> orgId, organizationRole |-> "OWNER",
     joinedOrganizationAt |-> t]

NewAdminUser(id, email, orgId, t) ==
    [id |-> id, email |-> email, emailVerified |-> FALSE, role |-> "admin",
     organizationId |-> orgId, organizationRole |-> "OWNER",
     joinedOrganizationAt |-> t]

NewVerification(id, email, code, expiry) ==
    [id |-> id, identifier |-> email, value |-> code, expiresAt |-> expiry]

NewActivity(id, orgId, userId, action, entityId) ==
    [id |-> id, organizationId |-> orgId, userId |-> userId,
     action |-> action, entityId |-> entityId]

(* Unique indexes of the store, the ones findUnique({where: {slug}}) and
   findUnique({where: {email}}) rest on: an insert that repeats the key throws. *)

SlugTaken(orgs, slug) == \E o \in orgs : o.slug = slug

EmailTaken(us, email) == \E u \in us : u.email = email

\* Mutant: the slug column has no unique index
SlugIndexViolated_NoIndex(orgs, slug) == FALSE

\* create() on a table with a unique index throws "Unique constraint failed"
SlugIndexViolated(orgs, slug) == SlugTaken(orgs, slug)

EmailIndexViolated(us, email) == EmailTaken(us, email)

-----------------------------------------------------------------------------
(* createOrganizationWithAdmin *)

Payload(slug, email, seats, terms) ==
    [organizationSlug |-> slug, adminEmail |-> email, maxSeats |-> seats,
     acceptTerms |-> terms]

\* Two independent valid payloads, one that clashes with them on the slug and
\* on the admin email, one that names an existing account, two invalid ones.
SignupValues ==
    {Payload("acme-corp", "ada@acme.com", 2, TRUE),
     Payload("beta", "bo@beta.io", 2, TRUE),
     Payload("acme-corp", "bo@beta.io", 2, TRUE),
     Payload("beta", "u1@x.com", 2, TRUE),
     Payload("beta", "bo@beta.io", 0, TRUE),
     Payload("beta", "bo@beta.io", 2, FALSE)}

\* What a response keeps of its request: the part the properties refer to
SignupArgs(ip, values) ==
    [NoArgs EXCEPT !.ip = ip,
                   !.slug = values.organizationSlug,
                   !.email = values.adminEmail,
                   !.maxSeats = values.maxSeats,
                   !.acceptTerms = values.acceptTerms]

\* organizationSignupSchema.safeParse: the first failing field's message
SignupError(values) ==
    IF values.maxSeats < MinSeats THEN MsgSeatsMin
    ELSE IF values.maxSeats > MaxSeatsAllowed THEN MsgSeatsMax
    ELSE IF ~values.acceptTerms THEN MsgTerms
    ELSE ""

\* Mutant: the admin email is not looked up
ProvisionCheck_NoEmailCheck(ip, shield, values) ==
    LET d == Decision(rate, Fingerprint(ip), now, shield) IN
    IF d = "RATE_LIMIT" THEN MsgTooMany
    ELSE IF d # "ALLOW" THEN MsgBlocked
    ELSE IF SignupError(values) # "" THEN SignupError(values)
    ELSE IF SlugTaken(organizations, values.organizationSlug) THEN MsgSlugTaken
    ELSE ""

\* The early returns before the transaction: the message returned, "" to go on
ProvisionCheck(ip, shield, values) ==
    LET d == Decision(rate, Fingerprint(ip), now, shield) IN
    IF d = "RATE_LIMIT" THEN MsgTooMany
    ELSE IF d # "ALLOW" THEN MsgBlocked
    ELSE IF SignupError(values) # "" THEN SignupError(values)
    ELSE IF SlugTaken(organizations, values.organizationSlug) THEN MsgSlugTaken
    ELSE IF EmailTaken(users, values.adminEmail) THEN MsgEmailTaken
    ELSE ""

ProvisionBegin(p, ip, shield, values, code) ==
    /\ req[p] = Idle
    /\ nextId <= MaxId
    /\ rate' = Protect(rate, Fingerprint(ip), now)
    /\ LET msg == ProvisionCheck(ip, shield, values) IN
       IF msg # ""
       THEN /\ last' = Response("createOrganizationWithAdmin",
                                SignupArgs(ip, values), 0, "error",
                                msg, 0, "")
            /\ UNCHANGED <<req, nextId>>
       ELSE /\ req' = [req EXCEPT ![p] =
                        [pc |-> "tx", values |-> values,
                         args |-> SignupArgs(ip, values),
                         userId |-> nextId, code |-> code,
                         expiry |-> now + VerificationTtl]]
            /\ nextId' = nextId + 1
            /\ UNCHANGED last
    /\ UNCHANGED <<organizations, users, verifications, sessions,
                   invitations, activities, outbox, now>>

\* The four statements of the transaction body, run on a working copy of the
\* store; failAt = k makes statement k throw, 0 lets every statement run.
TxSteps(store, r, t, id0, failAt) ==
    LET v == r.values
        orgId == id0
        s1 == IF failAt = 1 THEN [store |-> store, err |-> "fault"]
              ELSE IF SlugIndexViolated(store.organizations,
                                        v.organizationSlug)
              THEN [store |-> store, err |-> "unique"]
              ELSE [store |-> [store EXCEPT !.organizations = @ \cup
                        {NewOrganization(orgId, v.organizationSlug,
                                         v.maxSeats, r.userId)}],
                    err |-> "none"]
        s2 == IF s1.err # "none" THEN s1
              ELSE IF failAt = 2 THEN [s1 EXCEPT !.err = "fault"]
              ELSE IF EmailIndexViolated(s1.store.users, v.adminEmail)
              THEN [s1 EXCEPT !.err = "unique"]
              ELSE [s1 EXCEPT !.store.users = @ \cup
                        {NewAdminUser(r.userId, v.adminEmail, orgId, t)}]
        s3 == IF s2.err # "none" THEN s2
              ELSE IF failAt = 3 THEN [s2 EXCEPT !.err = "fault"]
              ELSE [s2 EXCEPT !.store.verifications = @ \cup
                        {NewVerification(id0 + 1, v.adminEmail, r.code,
                                         r.expiry)}]
        s4 == IF s3.err # "none" THEN s3
              ELSE IF failAt = 4 THEN [s3 EXCEPT !.err = "fault"]
              ELSE [s3 EXCEPT !.store.activities = @ \cup
                        {NewActivity(id0 + 2, orgId, r.userId,
                                     "organization_created", orgId)}]
    IN s4

\* Mutant: the statements run outside a transaction, what ran stays
Transaction_NoRollback(before, out) == out.store

\* prisma.$transaction: the working copy is committed when the body returns
\* and discarded when it throws.
Transaction(before, out) == IF out.err = "none" THEN out.store ELSE before

\* catch: the message for a thrown error
CatchMessage(err) == IF err = "unique" THEN MsgUnique ELSE MsgFailed

ProvisionTx(p, failAt) ==
    /\ req[p].pc = "tx"
    /\ LET before == [organizations |-> organizations, users |-> users,
                      verifications |-> verifications,
                      activities |-> activities]
           out == TxSteps(before, req[p], now, nextId, failAt)
           after == Transaction(before, out)
       IN /\ organizations' = after.organizations
          /\ users' = after.users
          /\ verifications' = after.verifications
          /\ activities' = after.activities
          /\ IF out.err = "none"
             THEN /\ req' = [req EXCEPT ![p].pc = "email"]
                  /\ nextId' = nextId + 3
                  /\ UNCHANGED last
             ELSE /\ req' = [req EXCEPT ![p] = Idle]
                  /\ last' = Response("createOrganizationWithAdmin",
                                      req[p].args, 0, "error",
                                      CatchMessage(out.err), 0, "")
                  /\ UNCHANGED nextId
    /\ UNCHANGED <<sessions, invitations, outbox, rate, now>>

\* resend.emails.send, called once after the commit; throws = the call throws
ProvisionSendEmail_Retries(p, throws) ==
    /\ req[p].pc = "email"
    /\ LET mail == [to |-> req[p].values.adminEmail, code |-> req[p].code]
       IN outbox' = IF throws THEN outbox \o <<mail, mail>>
                    ELSE Append(outbox, mail)
    /\ last' = IF throws
               THEN Response("createOrganizationWithAdmin", req[p].args, 0,
                             "error", MsgFailed, 0, "")
               ELSE Response("createOrganizationWithAdmin", req[p].args, 0,
                             "success", MsgCreated, 0, "")
    /\ req' = [req EXCEPT ![p] = Idle]
    /\ UNCHANGED <<organizations, users, verifications, sessions,
                   invitations, activities, rate, now, nextId>>

ProvisionSendEmail(p, throws) ==
    /\ req[p].pc = "email"
    /\ outbox' = Append(outbox, [to |-> req[p].values.adminEmail,
                                 code |-> req[p].code])
    /\ last' = IF throws
               THEN Response("createOrganizationWithAdmin", req[p].args, 0,
                             "error", MsgFailed, 0, "")
               ELSE Response("createOrganizationWithAdmin", req[p].args, 0,
                             "success", MsgCreated, 0, "")
    /\ req' = [req EXCEPT ![p] = Idle]
    /\ UNCHANGED <<organizations, users, verifications, sessions,
                   invitations, activities, rate, now, nextId>>

-----------------------------------------------------------------------------
(* Verification exchange *)

VerifyArgs(email, code) == [NoArgs EXCEPT !.email = email, !.code = code]

\* verificationSchema / the endpoint's body schema: code: z.string().length(6)
CodeWellFormed(code) == Len(code) = CodeLength

\* Mutant: the expiry is not part of the lookup
FindVerification_NoExpiry(email, code, t) ==
    {v \in verifications : v.identifier = email /\ v.value = code}

\* findFirst({where: {identifier, value, expiresAt: {gt: new Date()}}})
FindVerification(email, code, t) ==
    {v \in verifications :
        v.identifier = email /\ v.value = code /\ v.expiresAt > t}

UserByEmail(email) == {u \in users : u.email = email}

\* Mutant: the used row is left in place
DeleteVerification_Kept(vs, v) == vs

\* prisma.verification.delete({where: {id}})
DeleteVerification(vs, v) == vs \ {v}

MarkVerified(us, u) == (us \ {u}) \cup {[u EXCEPT !.emailVerified = TRUE]}

\* POST /api/auth/verify-organization-signup, the route handler
POST(email, code) ==
    /\ IF ~CodeWellFormed(code)
       THEN /\ last' = Response("POST", VerifyArgs(email, code), 400, "error",
                                MsgInvalidInput, 0, "")
            /\ UNCHANGED <<users, verifications>>
       ELSE IF FindVerification(email, code, now) = {}
       THEN /\ last' = Response("POST", VerifyArgs(email, code), 400, "error",
                                MsgInvalidCode, 0, "")
            /\ UNCHANGED <<users, verifications>>
       ELSE IF UserByEmail(email) = {}
       THEN /\ last' = Response("POST", VerifyArgs(email, code), 404, "error",
                                MsgUserNotFound, 0, "")
            /\ UNCHANGED <<users, verifications>>
       ELSE \E v \in FindVerification(email, code, now) :
            \E u \in UserByEmail(email) :
               /\ users' = MarkVerified(users, u)
               /\ verifications' = DeleteVerification(verifications, v)
               /\ last' = Response("POST", VerifyArgs(email, code), 200,
                                   "success", MsgVerified, 0, "/login")
    /\ UNCHANGED <<organizations, sessions, invitations, activities, outbox,
                   rate, now, nextId, req>>

NewSession(id, token, userId, t) ==
    [id |-> id, token |-> token, userId |-> userId,
     expiresAt |-> t + SessionTtl]

\* The plugin endpoint /verify-organization-signup
verifyOrganizationSignup(email, code) ==
    /\ nextId <= MaxId
    /\ IF ~CodeWellFormed(code)
       THEN /\ last' = Response("verifyOrganizationSignup",
                                VerifyArgs(email, code), 400, "error",
                                MsgInvalidInput, 0, "")
            /\ UNCHANGED <<users, verifications, sessions, nextId>>
       ELSE IF FindVerification(email, code, now) = {}
       THEN /\ last' = Response("verifyOrganizationSignup",
                                VerifyArgs(email, code), 400, "error",
                                MsgInvalidCode, 0, "")
            /\ UNCHANGED <<users, verifications, sessions, nextId>>
       ELSE IF UserByEmail(email) = {}
       THEN /\ last' = Response("verifyOrganizationSignup",
                                VerifyArgs(email, code), 404, "error",
                                MsgUserNotFound, 0, "")
            /\ UNCHANGED <<users, verifications, sessions, nextId>>
       ELSE \E v \in FindVerification(email, code, now) :
            \E u \in UserByEmail(email) :
               /\ users' = MarkVerified(users, u)
               /\ verifications' = DeleteVerification(verifications, v)
               /\ sessions' = sessions \cup
                     {NewSession(nextId, nextId + 1, u.id, now)}
               /\ nextId' = nextId + 2
               /\ last' = Response("verifyOrganizationSignup",
                                   VerifyArgs(email, code), 200, "success",
                                   "", nextId + 1, "")
    /\ UNCHANGED <<organizations, invitations, activities, outbox, rate, now,
                   req>>

-----------------------------------------------------------------------------
(* The two verification handlers statement by statement, for exchanges that
   run at the same time.  Each await of prisma is a step of slot p; op is the
   handler, "POST" or "verifyOrganizationSignup".  A finished exchange leaves
   its answer in its slot until the slot takes the next request. *)

MsgVerifyFailed == "Failed to verify email"

\* return ...json(...): the exchange of slot p ends with this answer
ExchangeEnds(p, op, args, vid, http, status, message, cookie, to) ==
    /\ req' = [req EXCEPT ![p] = [pc |-> "returned", op |-> op, args |-> args,
                                  verificationId |-> vid, http |-> http]]
    /\ last' = Response(op, args, http, status, message, cookie, to)

\* The body check, verification.findFirst and user.findUnique
ExchangeFind(p, op, email, code) ==
    /\ req[p] = Idle \/ req[p].pc = "returned"
    /\ IF ~CodeWellFormed(code)
       THEN ExchangeEnds(p, op, VerifyArgs(email, code), 0, 400, "error",
                         MsgInvalidInput, 0, "")
       ELSE IF FindVerification(email, code, now) = {}
       THEN ExchangeEnds(p, op, VerifyArgs(email, code), 0, 400, "error",
                         MsgInvalidCode, 0, "")
       ELSE IF UserByEmail(email) = {}
       THEN ExchangeEnds(p, op, VerifyArgs(email, code), 0, 404, "error",
                         MsgUserNotFound, 0, "")
       ELSE \E v \in FindVerification(email, code, now) :
            \E u \in UserByEmail(email) :
               /\ req' = [req EXCEPT ![p] =
                            [pc |-> "update", op |-> op,
                             args |-> VerifyArgs(email, code),
                             verificationId |-> v.id, userId |-> u.id]]
               /\ UNCHANGED last
    /\ UNCHANGED <<organizations, users, verifications, sessions,
                   invitations, activities, outbox, rate, now, nextId>>

\* prisma.user.update({where: {id: user.id}, data: {emailVerified: true}})
ExchangeUpdate(p) ==
    /\ req[p].pc = "update"
    /\ users' = {IF u.id = req[p].userId
                 THEN [u EXCEPT !.emailVerified = TRUE] ELSE u : u \in users}
    /\ req' = [req EXCEPT ![p].pc = "delete"]
    /\ UNCHANGED <<organizations, verifications, sessions, invitations,
                   activities, outbox, rate, now, nextId, last>>

\* Mutant: a delete of a row that is gone is no error
ExchangeDelete_MissingRowIgnored(p) ==
    /\ req[p].pc = "delete"
    /\ verifications' =
          {v \in verifications : v.id # req[p].verificationId}
    /\ IF req[p].op = "POST"
       THEN ExchangeEnds(p, req[p].op, req[p].args, req[p].verificationId,
                         200, "success", MsgVerified, 0, "/login")
       ELSE /\ req' = [req EXCEPT ![p].pc = "session"]
            /\ UNCHANGED last
    /\ UNCHANGED <<organizations, users, sessions, invitations, activities,
                   outbox, rate, now, nextId>>

\* prisma.verification.delete({where: {id: verification.id}}): it throws when
\* no row has the id, and the handler's catch answers 500.  The route handler
\* returns after the delete, the plugin endpoint goes on to the session.
ExchangeDelete(p) ==
    /\ req[p].pc = "delete"
    /\ IF \A v \in verifications : v.id # req[p].verificationId
       THEN /\ ExchangeEnds(p, req[p].op, req[p].args,
                            req[p].verificationId, 500, "error",
                            MsgVerifyFailed, 0, "")
            /\ UNCHANGED verifications
       ELSE /\ verifications' =
                  {v \in verifications : v.id # req[p].verificationId}
            /\ IF req[p].op = "POST"
               THEN ExchangeEnds(p, req[p].op, req[p].args,
                                 req[p].verificationId, 200, "success",
                                 MsgVerified, 0, "/login")
               ELSE /\ req' = [req EXCEPT ![p].pc = "session"]
                    /\ UNCHANGED last
    /\ UNCHANGED <<organizations, users, sessions, invitations, activities,
                   outbox, rate, now, nextId>>

\* prisma.session.create, the Set-Cookie header and the success answer of the
\* plugin endpoint
ExchangeCreateSession(p) ==
    /\ req[p].pc = "session"
    /\ nextId <= MaxId
    /\ sessions' = sessions \cup
          {NewSession(nextId, nextId + 1, req[p].userId, now)}
    /\ nextId' = nextId + 2
    /\ ExchangeEnds(p, req[p].op, req[p].args, req[p].verificationId, 200,
                    "success", "", nextId + 1, "")
    /\ UNCHANGED <<organizations, users, verifications, invitations,
                   activities, outbox, rate, now>>

-----------------------------------------------------------------------------
(* /organization/* endpoints.  The bodies have passed the endpoint's schema;
   caller is the session's user id, 0 when there is no session. *)

MsgUnauthorized == "Unauthorized"
MsgSlugExists == "Organization slug already exists"

UserById(id) == {u \in users : u.id = id}

\* z.number().min(1).default(5): seats = 0 stands for an absent field
SeatsOrDefault(seats) == IF seats = 0 THEN DefaultSeats ELSE seats

CreateArgs(caller, slug, seats) ==
    [NoArgs EXCEPT !.caller = caller, !.slug = slug, !.maxSeats = seats]

JoinAs(us, u, orgId, role, t) ==
    (us \ {u}) \cup {[u EXCEPT !.organizationId = orgId,
                               !.organizationRole = role,
                               !.joinedOrganizationAt = t]}

\* createOrganization up to the slug lookup
createOrganizationBegin(p, caller, slug, seats) ==
    /\ req[p] = Idle
    /\ nextId <= MaxId
    /\ IF caller = 0
       THEN /\ last' = Response("createOrganization",
                                CreateArgs(caller, slug, seats), 401, "error",
                                MsgUnauthorized, 0, "")
            /\ UNCHANGED req
       ELSE IF SlugTaken(organizations, slug)
       THEN /\ last' = Response("createOrganization",
                                CreateArgs(caller, slug, seats), 400, "error",
                                MsgSlugExists, 0, "")
            /\ UNCHANGED req
       ELSE /\ req' = [req EXCEPT ![p] =
                        [pc |-> "create", caller |-> caller, slug |-> slug,
                         seats |-> seats,
                         args |-> CreateArgs(caller, slug, seats)]]
            /\ UNCHANGED last
    /\ UNCHANGED <<organizations, users, verifications, sessions,
                   invitations, activities, outbox, rate, now, nextId>>

\* createOrganization from the insert on: organization.create, user.update and
\* organizationActivity.create, with no try/catch around them.  A thrown
\* error leaves the handler: status "threw".
createOrganizationCommit(p) ==
    /\ req[p].pc = "create"
    /\ req' = [req EXCEPT ![p] = Idle]
    /\ IF SlugIndexViolated(organizations, req[p].slug)
          \/ UserById(req[p].caller) = {}
       THEN /\ last' = Response("createOrganization", req[p].args, 500,
                                "threw", "", 0, "")
            /\ UNCHANGED <<organizations, users, activities, nextId>>
       ELSE \E u \in UserById(req[p].caller) :
            /\ organizations' = organizations \cup
                  {NewOrganization(nextId, req[p].slug,
                                   SeatsOrDefault(req[p].seats), u.id)}
            /\ users' = JoinAs(users, u, nextId, "OWNER", now)
            /\ activities' = activities \cup
                  {NewActivity(nextId + 1, nextId, u.id,
                               "organization_created", nextId)}
            /\ nextId' = nextId + 2
            /\ last' = Response("createOrganization", req[p].args, 200,
                                "success", "", 0, "")
    /\ UNCHANGED <<verifications, sessions, invitations, outbox, rate, now>>

\* The endpoints below run as one step each: their reads and writes are not
\* interleaved with other requests here, so every behaviour shown is one the
\* deployed handlers have as well.
MsgNoOrganization == "User is not part of an organization"
MsgForbidden == "Insufficient permissions"
MsgSeatLimit == "Organization has reached maximum seat limit"
MsgAlreadyMember == "User is already a member of this organization"
MsgAlreadyInvited == "Invitation already sent to this email"
MsgInvalidInvitation == "Invalid invitation"
MsgNotValid == "Invitation is no longer valid"
MsgExpired == "Invitation has expired"
MsgEmailMismatch == "Invitation email does not match user email"
MsgAlreadyInOrg == "User is already part of an organization"
MsgOwnerCannotLeave == "Organization owner cannot leave. Transfer ownership first."
MsgMemberNotFound == "Member not found in organization"
MsgCannotRemoveOwner == "Cannot remove organization owner"
MsgOnlyOwner == "Only organization owner can update settings"
MsgInvitationNotFound == "Invitation not found"
MsgNotPending == "Invitation is no longer pending"

OrgById(id) == {o \in organizations : o.id = id}

\* prisma.user.count({where: {organizationId}})
MemberCount(us, orgId) == Cardinality({u \in us : u.organizationId = orgId})

CanManage_Anyone(u) == TRUE

CanManage(u) == u.organizationRole = "OWNER" \/ u.organizationRole = "ADMIN"

NewInvitation(id, token, orgId, email, role, senderId, t) ==
    [id |-> id, token |-> token, organizationId |-> orgId, email |-> email,
     role |-> role, senderId |-> senderId, status |-> "PENDING",
     expiresAt |-> t + InvitationTtl]

\* findUnique({where: {organizationId_email}}): the pair is a unique key
InvitationFor(invs, orgId, email) ==
    {i \in invs : i.organizationId = orgId /\ i.email = email}

InvitationIndexViolated(invs, orgId, email) ==
    InvitationFor(invs, orgId, email) # {}

SetStatus(invs, i, status) == (invs \ {i}) \cup {[i EXCEPT !.status = status]}

ClearOrganization_KeepsRole(us, u) ==
    (us \ {u}) \cup {[u EXCEPT !.organizationId = 0,
                               !.joinedOrganizationAt = -1]}

ClearOrganization(us, u) ==
    (us \ {u}) \cup {[u EXCEPT !.organizationId = 0,
                               !.organizationRole = "NONE",
                               !.joinedOrganizationAt = -1]}

\* What an /organization/* endpoint answers: the request is echoed beside a
\* 200 only, an error carries its status and message
Reply(op, args, http, message) ==
    [Response(op, IF http = 200 THEN args ELSE NoArgs, http,
              IF http = 200 THEN "success" ELSE "error", message, 0, "")
     EXCEPT !.seq = last.seq]

\* A statement of the endpoint threw and nothing catches it
Threw(op) == [Response(op, NoArgs, 500, "threw", "", 0, "")
              EXCEPT !.seq = last.seq]

InviteCheck_NoSeatCheck(caller, email) ==
    IF caller = 0 THEN MsgUnauthorized
    ELSE IF \A u \in UserById(caller) :
               u.organizationId = 0 \/ OrgById(u.organizationId) = {}
    THEN MsgNoOrganization
    ELSE LET u == CHOOSE x \in UserById(caller) : TRUE
             o == CHOOSE x \in OrgById(u.organizationId) : TRUE
         IN IF ~CanManage(u) THEN MsgForbidden
            ELSE IF FALSE
            THEN MsgSeatLimit
            ELSE IF \E m \in UserByEmail(email) :
                       m.organizationId = u.organizationId
            THEN MsgAlreadyMember
            ELSE IF \E i \in InvitationFor(invitations, u.organizationId,
                                           email) : i.status = "PENDING"
            THEN MsgAlreadyInvited
            ELSE ""

InviteCheck_NoPendingCheck(caller, email) ==
    IF caller = 0 THEN MsgUnauthorized
    ELSE IF \A u \in UserById(caller) :
               u.organizationId = 0 \/ OrgById(u.organizationId) = {}
    THEN MsgNoOrganization
    ELSE LET u == CHOOSE x \in UserById(caller) : TRUE
             o == CHOOSE x \in OrgById(u.organizationId) : TRUE
         IN IF ~CanManage(u) THEN MsgForbidden
            ELSE IF MemberCount(users, u.organizationId) >= o.maxSeats
            THEN MsgSeatLimit
            ELSE IF \E m \in UserByEmail(email) :
                       m.organizationId = u.organizationId
            THEN MsgAlreadyMember
            ELSE IF FALSE
            THEN MsgAlreadyInvited
            ELSE ""

\* The message of the first guard of inviteMember that fails, "" if none does
InviteCheck(caller, email) ==
    IF caller = 0 THEN MsgUnauthorized
    ELSE IF \A u \in UserById(caller) :
               u.organizationId = 0 \/ OrgById(u.organizationId) = {}
    THEN MsgNoOrganization
    ELSE LET u == CHOOSE x \in UserById(caller) : TRUE
             o == CHOOSE x \in OrgById(u.organizationId) : TRUE
         IN IF ~CanManage(u) THEN MsgForbidden
            ELSE IF MemberCount(users, u.organizationId) >= o.maxSeats
            THEN MsgSeatLimit
            ELSE IF \E m \in UserByEmail(email) :
                       m.organizationId = u.organizationId
            THEN MsgAlreadyMember
            ELSE IF \E i \in InvitationFor(invitations, u.organizationId,
                                           email) : i.status = "PENDING"
            THEN MsgAlreadyInvited
            ELSE ""

InviteStatus(msg) ==
    IF msg = MsgUnauthorized THEN 401
    ELSE IF msg = MsgForbidden THEN 403
    ELSE 400

InviteArgs(caller, email) ==
    [NoArgs EXCEPT !.caller = caller, !.email = email]

inviteMember(caller, email, role) ==
    /\ nextId <= MaxId
    /\ LET msg == InviteCheck(caller, email)
           args == InviteArgs(caller, email)
       IN IF msg # ""
          THEN /\ last' = Reply("inviteMember", args, InviteStatus(msg), msg)
               /\ UNCHANGED <<invitations, activities, nextId>>
          ELSE LET u == CHOOSE x \in UserById(caller) : TRUE IN
               IF InvitationIndexViolated(invitations, u.organizationId, email)
               THEN /\ last' = Threw("inviteMember")
                    /\ UNCHANGED <<invitations, activities, nextId>>
               ELSE /\ invitations' = invitations \cup
                        {NewInvitation(nextId, nextId + 1, u.organizationId,
                                       email, role, caller, now)}
                    /\ activities' = activities \cup
                        {NewActivity(nextId + 2, u.organizationId, caller,
                                     "member_invited", nextId)}
                    /\ nextId' = nextId + 3
                    /\ last' = Reply("inviteMember", args, 200, "")
    /\ UNCHANGED <<organizations, users, verifications, sessions, outbox,
                   rate, now, req>>

InvitationByToken_AnyRow(token) == invitations

InvitationByToken(token) == {i \in invitations : i.token = token}

AcceptArgs(caller, token) ==
    [NoArgs EXCEPT !.caller = caller, !.token = token]

acceptInvitation_NoStatusGuard(caller, token) ==
    /\ nextId <= MaxId
    /\ LET args == AcceptArgs(caller, token)
           op == "acceptInvitation"
           Fail(http, msg) ==
               /\ last' = Reply(op, args, http, msg)
               /\ UNCHANGED <<users, invitations, activities, nextId>>
       IN IF caller = 0 THEN Fail(401, MsgUnauthorized)
          ELSE IF InvitationByToken(token) = {}
          THEN Fail(404, MsgInvalidInvitation)
          ELSE LET i == CHOOSE x \in InvitationByToken(token) : TRUE IN
               IF FALSE THEN Fail(400, MsgNotValid)
               ELSE IF now > i.expiresAt
               THEN /\ invitations' = SetStatus(invitations, i, "EXPIRED")
                    /\ last' = Reply(op, args, 400, MsgExpired)
                    /\ UNCHANGED <<users, activities, nextId>>
               ELSE IF \A u \in UserById(caller) : u.email # i.email
               THEN Fail(400, MsgEmailMismatch)
               ELSE LET u == CHOOSE x \in UserById(caller) : TRUE IN
                    IF u.organizationId # 0 THEN Fail(400, MsgAlreadyInOrg)
                    ELSE /\ users' = JoinAs(users, u, i.organizationId,
                                            i.role, now)
                         /\ invitations' = SetStatus(invitations, i, "ACCEPTED")
                         /\ activities' = activities \cup
                              {NewActivity(nextId, i.organizationId, caller,
                                           "member_joined", caller)}
                         /\ nextId' = nextId + 1
                         /\ last' = Reply(op, args, 200, "")
    /\ UNCHANGED <<organizations, verifications, sessions, outbox, rate, now,
                   req>>

acceptInvitation_NoEmailCheck(caller, token) ==
    /\ nextId <= MaxId
    /\ LET args == AcceptArgs(caller, token)
           op == "acceptInvitation"
           Fail(http, msg) ==
               /\ last' = Reply(op, args, http, msg)
               /\ UNCHANGED <<users, invitations, activities, nextId>>
       IN IF caller = 0 THEN Fail(401, MsgUnauthorized)
          ELSE IF InvitationByToken(token) = {}
          THEN Fail(404, MsgInvalidInvitation)
          ELSE LET i == CHOOSE x \in InvitationByToken(token) : TRUE IN
               IF i.status # "PENDING" THEN Fail(400, MsgNotValid)
               ELSE IF now > i.expiresAt
               THEN /\ invitations' = SetStatus(invitations, i, "EXPIRED")
                    /\ last' = Reply(op, args, 400, MsgExpired)
                    /\ UNCHANGED <<users, activities, nextId>>
               ELSE IF FALSE
               THEN Fail(400, MsgEmailMismatch)
               ELSE LET u == CHOOSE x \in UserById(caller) : TRUE IN
                    IF u.organizationId # 0 THEN Fail(400, MsgAlreadyInOrg)
                    ELSE /\ users' = JoinAs(users, u, i.organizationId,
                                            i.role, now)
                         /\ invitations' = SetStatus(invitations, i, "ACCEPTED")
                         /\ activities' = activities \cup
                              {NewActivity(nextId, i.organizationId, caller,
                                           "member_joined", caller)}
                         /\ nextId' = nextId + 1
                         /\ last' = Reply(op, args, 200, "")
    /\ UNCHANGED <<organizations, verifications, sessions, outbox, rate, now,
                   req>>

acceptInvitation_ExpiryIgnored(caller, token) ==
    /\ nextId <= MaxId
    /\ LET args == AcceptArgs(caller, token)
           op == "acceptInvitation"
           Fail(http, msg) ==
               /\ last' = Reply(op, args, http, msg)
               /\ UNCHANGED <<users, invitations, activities, nextId>>
       IN IF caller = 0 THEN Fail(401, MsgUnauthorized)
          ELSE IF InvitationByToken(token) = {}
          THEN Fail(404, MsgInvalidInvitation)
          ELSE LET i == CHOOSE x \in InvitationByToken(token) : TRUE IN
               IF i.status # "PENDING" THEN Fail(400, MsgNotValid)
               ELSE IF FALSE
               THEN /\ invitations' = SetStatus(invitations, i, "EXPIRED")
                    /\ last' = Reply(op, args, 400, MsgExpired)
                    /\ UNCHANGED <<users, activities, nextId>>
               ELSE IF \A u \in UserById(caller) : u.email # i.email
               THEN Fail(400, MsgEmailMismatch)
               ELSE LET u == CHOOSE x \in UserById(caller) : TRUE IN
                    IF u.organizationId # 0 THEN Fail(400, MsgAlreadyInOrg)
                    ELSE /\ users' = JoinAs(users, u, i.organizationId,
                                            i.role, now)
                         /\ invitations' = SetStatus(invitations, i, "ACCEPTED")
                         /\ activities' = activities \cup
                              {NewActivity(nextId, i.organizationId, caller,
                                           "member_joined", caller)}
                         /\ nextId' = nextId + 1
                         /\ last' = Reply(op, args, 200, "")
    /\ UNCHANGED <<organizations, verifications, sessions, outbox, rate, now,
                   req>>

acceptInvitation(caller, token) ==
    /\ nextId <= MaxId
    /\ LET args == AcceptArgs(caller, token)
           op == "acceptInvitation"
           Fail(http, msg) ==
               /\ last' = Reply(op, args, http, msg)
               /\ UNCHANGED <<users, invitations, activities, nextId>>
       IN IF caller = 0 THEN Fail(401, MsgUnauthorized)
          ELSE IF InvitationByToken(token) = {}
          THEN Fail(404, MsgInvalidInvitation)
          ELSE LET i == CHOOSE x \in InvitationByToken(token) : TRUE IN
               IF i.status # "PENDING" THEN Fail(400, MsgNotValid)
               ELSE IF now > i.expiresAt
               THEN /\ invitations' = SetStatus(invitations, i, "EXPIRED")
                    /\ last' = Reply(op, args, 400, MsgExpired)
                    /\ UNCHANGED <<users, activities, nextId>>
               ELSE IF \A u \in UserById(caller) : u.email # i.email
               THEN Fail(400, MsgEmailMismatch)
               ELSE LET u == CHOOSE x \in UserById(caller) : TRUE IN
                    IF u.organizationId # 0 THEN Fail(400, MsgAlreadyInOrg)
                    ELSE /\ users' = JoinAs(users, u, i.organizationId,
                                            i.role, now)
                         /\ invitations' = SetStatus(invitations, i, "ACCEPTED")
                         /\ activities' = activities \cup
                              {NewActivity(nextId, i.organizationId, caller,
                                           "member_joined", caller)}
                         /\ nextId' = nextId + 1
                         /\ last' = Reply(op, args, 200, "")
    /\ UNCHANGED <<organizations, verifications, sessions, outbox, rate, now,
                   req>>

CallerArgs(caller) == [NoArgs EXCEPT !.caller = caller]

leaveOrganization_OwnerMayLeave(caller) ==
    /\ nextId <= MaxId
    /\ LET args == CallerArgs(caller)
           op == "leaveOrganization"
           Fail(http, msg) ==
               /\ last' = Reply(op, args, http, msg)
               /\ UNCHANGED <<users, activities, nextId>>
       IN IF caller = 0 THEN Fail(401, MsgUnauthorized)
          ELSE IF \A u \in UserById(caller) : u.organizationId = 0
          THEN Fail(400, MsgNoOrganization)
          ELSE LET u == CHOOSE x \in UserById(caller) : TRUE IN
               IF FALSE
               THEN Fail(400, MsgOwnerCannotLeave)
               ELSE /\ users' = ClearOrganization(users, u)
                    /\ activities' = activities \cup
                         {NewActivity(nextId, u.organizationId, caller,
                                      "member_left", caller)}
                    /\ nextId' = nextId + 1
                    /\ last' = Reply(op, args, 200, "")
    /\ UNCHANGED <<organizations, verifications, sessions, invitations,
                   outbox, rate, now, req>>

leaveOrganization(caller) ==
    /\ nextId <= MaxId
    /\ LET args == CallerArgs(caller)
           op == "leaveOrganization"
           Fail(http, msg) ==
               /\ last' = Reply(op, args, http, msg)
               /\ UNCHANGED <<users, activities, nextId>>
       IN IF caller = 0 THEN Fail(401, MsgUnauthorized)
          ELSE IF \A u \in UserById(caller) : u.organizationId = 0
          THEN Fail(400, MsgNoOrganization)
          ELSE LET u == CHOOSE x \in UserById(caller) : TRUE IN
               IF u.organizationRole = "OWNER"
               THEN Fail(400, MsgOwnerCannotLeave)
               ELSE /\ users' = ClearOrganization(users, u)
                    /\ activities' = activities \cup
                         {NewActivity(nextId, u.organizationId, caller,
                                      "member_left", caller)}
                    /\ nextId' = nextId + 1
                    /\ last' = Reply(op, args, 200, "")
    /\ UNCHANGED <<organizations, verifications, sessions, invitations,
                   outbox, rate, now, req>>

RemoveArgs(caller, memberId) ==
    [NoArgs EXCEPT !.caller = caller, !.memberId = memberId]

removeMember_OwnerRemovable(caller, memberId) ==
    /\ nextId <= MaxId
    /\ LET args == RemoveArgs(caller, memberId)
           op == "removeMember"
           Fail(http, msg) ==
               /\ last' = Reply(op, args, http, msg)
               /\ UNCHANGED <<users, activities, nextId>>
       IN IF caller = 0 THEN Fail(401, MsgUnauthorized)
          ELSE IF \A u \in UserById(caller) : u.organizationId = 0
          THEN Fail(400, MsgNoOrganization)
          ELSE LET u == CHOOSE x \in UserById(caller) : TRUE IN
               IF ~CanManage(u) THEN Fail(403, MsgForbidden)
               ELSE IF \A m \in UserById(memberId) :
                          m.organizationId # u.organizationId
               THEN Fail(404, MsgMemberNotFound)
               ELSE LET m == CHOOSE x \in UserById(memberId) : TRUE IN
                    IF FALSE
                    THEN Fail(400, MsgCannotRemoveOwner)
                    ELSE /\ users' = ClearOrganization(users, m)
                         /\ activities' = activities \cup
                              {NewActivity(nextId, u.organizationId, caller,
                                           "member_removed", memberId)}
                         /\ nextId' = nextId + 1
                         /\ last' = Reply(op, args, 200, "")
    /\ UNCHANGED <<organizations, verifications, sessions, invitations,
                   outbox, rate, now, req>>

removeMember(caller, memberId) ==
    /\ nextId <= MaxId
    /\ LET args == RemoveArgs(caller, memberId)
           op == "removeMember"
           Fail(http, msg) ==
               /\ last' = Reply(op, args, http, msg)
               /\ UNCHANGED <<users, activities, nextId>>
       IN IF caller = 0 THEN Fail(401, MsgUnauthorized)
          ELSE IF \A u \in UserById(caller) : u.organizationId = 0
          THEN Fail(400, MsgNoOrganization)
          ELSE LET u == CHOOSE x \in UserById(caller) : TRUE IN
               IF ~CanManage(u) THEN Fail(403, MsgForbidden)
               ELSE IF \A m \in UserById(memberId) :
                          m.organizationId # u.organizationId
               THEN Fail(404, MsgMemberNotFound)
               ELSE LET m == CHOOSE x \in UserById(memberId) : TRUE IN
                    IF m.organizationRole = "OWNER"
                    THEN Fail(400, MsgCannotRemoveOwner)
                    ELSE /\ users' = ClearOrganization(users, m)
                         /\ activities' = activities \cup
                              {NewActivity(nextId, u.organizationId, caller,
                                           "member_removed", memberId)}
                         /\ nextId' = nextId + 1
                         /\ last' = Reply(op, args, 200, "")
    /\ UNCHANGED <<organizations, verifications, sessions, invitations,
                   outbox, rate, now, req>>

\* updateOrganization with body {maxSeats}; the other fields of the body are
\* not part of the model's Organization row
updateOrganization(caller, seats) ==
    /\ nextId <= MaxId
    /\ LET args == CallerArgs(caller)
           op == "updateOrganization"
           Fail(http, msg) ==
               /\ last' = Reply(op, args, http, msg)
               /\ UNCHANGED <<organizations, activities, nextId>>
       IN IF caller = 0 THEN Fail(401, MsgUnauthorized)
          ELSE IF \A u \in UserById(caller) : u.organizationId = 0
          THEN Fail(400, MsgNoOrganization)
          ELSE LET u == CHOOSE x \in UserById(caller) : TRUE IN
               IF u.organizationRole # "OWNER" THEN Fail(403, MsgOnlyOwner)
               ELSE /\ organizations' =
                         {IF o.id = u.organizationId
                          THEN [o EXCEPT !.maxSeats = seats] ELSE o :
                          o \in organizations}
                    /\ activities' = activities \cup
                         {NewActivity(nextId, u.organizationId, caller,
                                      "organization_updated",
                                      u.organizationId)}
                    /\ nextId' = nextId + 1
                    /\ last' = Reply(op, args, 200, "")
    /\ UNCHANGED <<users, verifications, sessions, invitations, outbox, rate,
                   now, req>>

InvitationById(id) == {i \in invitations : i.id = id}

CancelArgs(caller, invitationId) ==
    [NoArgs EXCEPT !.caller = caller, !.invitationId = invitationId]

cancelInvitation_NoSessionCheck(caller, invitationId) ==
    /\ LET args == CancelArgs(caller, invitationId)
           op == "cancelInvitation"
           Fail(http, msg) ==
               /\ last' = Reply(op, args, http, msg)
               /\ UNCHANGED invitations
       IN IF FALSE THEN Fail(401, MsgUnauthorized)
          ELSE IF \A u \in UserById(caller) : u.organizationId = 0
          THEN Fail(400, MsgNoOrganization)
          ELSE LET u == CHOOSE x \in UserById(caller) : TRUE IN
               IF ~CanManage(u) THEN Fail(403, MsgForbidden)
               ELSE IF \A i \in InvitationById(invitationId) :
                          i.organizationId # u.organizationId
               THEN Fail(404, MsgInvitationNotFound)
               ELSE LET i == CHOOSE x \in InvitationById(invitationId) : TRUE
                    IN IF i.status # "PENDING" THEN Fail(400, MsgNotPending)
                       ELSE /\ invitations' =
                                 SetStatus(invitations, i, "REJECTED")
                            /\ last' = Reply(op, args, 200, "")
    /\ UNCHANGED <<organizations, users, verifications, sessions, activities,
                   outbox, rate, now, nextId, req>>

cancelInvitation(caller, invitationId) ==
    /\ LET args == CancelArgs(caller, invitationId)
           op == "cancelInvitation"
           Fail(http, msg) ==
               /\ last' = Reply(op, args, http, msg)
               /\ UNCHANGED invitations
       IN IF caller = 0 THEN Fail(401, MsgUnauthorized)
          ELSE IF \A u \in UserById(caller) : u.organizationId = 0
          THEN Fail(400, MsgNoOrganization)
          ELSE LET u == CHOOSE x \in UserById(caller) : TRUE IN
               IF ~CanManage(u) THEN Fail(403, MsgForbidden)
               ELSE IF \A i \in InvitationById(invitationId) :
                          i.organizationId # u.organizationId
               THEN Fail(404, MsgInvitationNotFound)
               ELSE LET i == CHOOSE x \in InvitationById(invitationId) : TRUE
                    IN IF i.status # "PENDING" THEN Fail(400, MsgNotPending)
                       ELSE /\ invitations' =
                                 SetStatus(invitations, i, "REJECTED")
                            /\ last' = Reply(op, args, 200, "")
    /\ UNCHANGED <<organizations, users, verifications, sessions, activities,
                   outbox, rate, now, nextId, req>>

-----------------------------------------------------------------------------
(* The session composer: hooks.after of the organization plugin *)

\* organization: null
NoOrganization == [id |-> 0]

OrganizationContext_SeatsOfPlan(u, o) ==
    [id |-> o.id, slug |-> o.slug, role |-> u.organizationRole,
     maxSeats |-> o.maxSeats, usedSeats |-> o.maxSeats,
     status |-> o.status]

\* OrganizationContext of user u in organization o
OrganizationContext(u, o) ==
    [id |-> o.id, slug |-> o.slug, role |-> u.organizationRole,
     maxSeats |-> o.maxSeats, usedSeats |-> MemberCount(users, o.id),
     status |-> o.status]

CombinedRole_OrgFirst(u) ==
    IF u.organizationRole = "OWNER" THEN "org_owner"
    ELSE IF u.organizationRole = "ADMIN" THEN "org_admin"
    ELSE IF u.organizationRole = "MEMBER" THEN "org_member"
    ELSE IF u.role = "admin" THEN "admin"
    ELSE "individual"

\* combinedRole of a user whose organization was loaded
CombinedRole(u) ==
    IF u.role = "admin" THEN "admin"
    ELSE IF u.organizationRole = "OWNER" THEN "org_owner"
    ELSE IF u.organizationRole = "ADMIN" THEN "org_admin"
    ELSE IF u.organizationRole = "MEMBER" THEN "org_member"
    ELSE "individual"

\* What the hook spreads over context.session.user for the session of user id
SessionUser(id) ==
    IF \E u \in UserById(id) : OrgById(u.organizationId) # {}
    THEN LET u == CHOOSE x \in UserById(id) : TRUE
             o == CHOOSE x \in OrgById(u.organizationId) : TRUE
         IN [id |-> id, organizationId |-> u.organizationId,
             organization |-> OrganizationContext(u, o),
             combinedRole |-> CombinedRole(u)]
    ELSE [id |-> id, organizationId |-> 0, organization |-> NoOrganization,
          combinedRole |-> IF \E u \in UserById(id) : u.role = "admin"
                           THEN "admin" ELSE "individual"]

\* The hook after an auth operation of the session of user id (0: the
\* context has no session); the context it returns is the response
hooksAfter(id) ==
    /\ IF id = 0
       THEN UNCHANGED last
       ELSE last' = [Response("hooks.after", CallerArgs(id), 200, "success",
                              "", 0, "") EXCEPT !.seq = last.seq]
                    @@ [user |-> SessionUser(id)]
    /\ UNCHANGED <<organizations, users, verifications, sessions, invitations,
                   activities, outbox, rate, now, nextId, req>>

-----------------------------------------------------------------------------
(* Signup: provisioning and verification, no store or email failures *)

SignupBegin ==
    \E ip \in Addrs, shield \in BOOLEAN, values \in SignupValues :
        ProvisionBegin(1, ip, shield, values, "123456")

SignupTx == ProvisionTx(1, 0)

SignupSendEmail == ProvisionSendEmail(1, FALSE)

NextSignup ==
    \/ SignupBegin
    \/ SignupTx
    \/ SignupSendEmail
    \/ Tick

SpecSignup == Init /\ [][NextSignup]_vars

-----------------------------------------------------------------------------
(* Verification: one signup, and both exchange handlers called for its
   admin email and for an email that never signed up *)

VerifyValues == {Payload("acme-corp", "ada@acme.com", 2, TRUE)}

VerifyBegin ==
    \E values \in VerifyValues, code \in Codes :
        ProvisionBegin(1, "10.0.0.1", FALSE, values, code)

RouteVerify ==
    \E email \in AdminEmails, code \in Codes \cup BadCodes : POST(email, code)

PluginVerify ==
    \E email \in AdminEmails, code \in Codes \cup BadCodes :
        verifyOrganizationSignup(email, code)

NextVerify ==
    \/ VerifyBegin
    \/ SignupTx
    \/ SignupSendEmail
    \/ RouteVerify
    \/ PluginVerify
    \/ Tick

SpecVerify == Init /\ [][NextVerify]_vars

-----------------------------------------------------------------------------
(* Faults: the same signup where any statement of the transaction, or the
   email client, may throw *)

FaultValues ==
    {Payload("acme-corp", "ada@acme.com", 2, TRUE),
     Payload("beta", "bo@beta.io", 2, TRUE)}

FaultBegin ==
    \E values \in FaultValues :
        ProvisionBegin(1, "10.0.0.1", FALSE, values, "123456")

FaultTx == \E failAt \in 0..4 : ProvisionTx(1, failAt)

FaultSendEmail == \E throws \in BOOLEAN : ProvisionSendEmail(1, throws)

FaultVerify == \E email \in AdminEmails : POST(email, "123456")

NextFaults ==
    \/ FaultBegin
    \/ FaultTx
    \/ FaultSendEmail
    \/ FaultVerify
    \/ Tick

SpecFaults == Init /\ [][NextFaults]_vars

-----------------------------------------------------------------------------
(* Slugs: two requests in flight at once, through provisioning and through
   /organization/create, contending for one slug *)

RaceValues ==
    {Payload("acme-corp", "ada@acme.com", 2, TRUE),
     Payload("acme-corp", "bo@beta.io", 2, TRUE)}

RaceBegin ==
    \E p \in Slots, values \in RaceValues :
        ProvisionBegin(p, "10.0.0.1", FALSE, values, "123456")

RaceTx == \E p \in Slots : ProvisionTx(p, 0)

RaceSendEmail == \E p \in Slots : ProvisionSendEmail(p, FALSE)

RaceCreateBegin ==
    \E p \in Slots, caller \in {0, 1, 2}, slug \in Slugs :
        createOrganizationBegin(p, caller, slug, 2)

RaceCreateCommit == \E p \in Slots : createOrganizationCommit(p)

NextSlug ==
    \/ RaceBegin
    \/ RaceTx
    \/ RaceSendEmail
    \/ RaceCreateBegin
    \/ RaceCreateCommit

SpecSlug == Init /\ [][NextSlug]_vars

-----------------------------------------------------------------------------
(* Membership: the /organization/* endpoints called by the three individual
   accounts and without a session *)

Callers == {1, 2, 3}
LogOpen == Cardinality(activities) < MaxLog
Roles == {"OWNER", "ADMIN", "MEMBER"}
Invitees == {"u2@x.com", "u3@x.com"}

OrgCreateBegin ==
    /\ LogOpen
    /\ \E caller \in {0, 1} :
          createOrganizationBegin(1, caller, "acme-corp", 2)

OrgCreateCommit == createOrganizationCommit(1)

OrgInvite ==
    /\ LogOpen
    /\ \E caller \in Callers \cup {0}, email \in Invitees, role \in Roles :
          inviteMember(caller, email, role)

OrgAccept ==
    /\ LogOpen
    /\ \E caller \in Callers \cup {0},
          token \in {i.token : i \in invitations} \cup {0} :
          acceptInvitation(caller, token)

OrgLeave ==
    /\ LogOpen
    /\ \E caller \in Callers \cup {0} : leaveOrganization(caller)

OrgRemove ==
    /\ LogOpen
    /\ \E caller \in Callers \cup {0}, memberId \in Callers :
          removeMember(caller, memberId)

OrgUpdate ==
    /\ LogOpen
    /\ \E caller \in Callers \cup {0}, seats \in {1, 3} :
          updateOrganization(caller, seats)

OrgCancel ==
    /\ LogOpen
    /\ \E caller \in Callers \cup {0},
          invitationId \in {i.id : i \in invitations} \cup {0} :
          cancelInvitation(caller, invitationId)

NextOrg ==
    \/ OrgCreateBegin
    \/ OrgCreateCommit
    \/ OrgInvite
    \/ OrgAccept
    \/ OrgLeave
    \/ OrgRemove
    \/ OrgUpdate
    \/ OrgCancel

SpecOrg == Init /\ [][NextOrg]_vars

-----------------------------------------------------------------------------
(* Sessions: an organization provisioned by signup and one created by an
   account, members joining by invitation, and the composer run for any
   account *)

SessionValues == {Payload("beta", "bo@beta.io", 2, TRUE)}

SessionBegin ==
    \E values \in SessionValues :
        ProvisionBegin(2, "10.0.0.1", FALSE, values, "123456")

SessionTx == ProvisionTx(2, 0)

SessionSendEmail == ProvisionSendEmail(2, FALSE)

SessionCompose ==
    \E id \in {u.id : u \in users} \cup {0} : hooksAfter(id)

NextSession ==
    \/ SessionBegin
    \/ SessionTx
    \/ SessionSendEmail
    \/ OrgCreateBegin
    \/ OrgCreateCommit
    \/ OrgInvite
    \/ OrgAccept
    \/ SessionCompose

SpecSession == Init /\ [][NextSession]_vars

-----------------------------------------------------------------------------
(* Invitations: one organization, its invitations from issue to acceptance,
   cancellation or expiry, with a clock that moves in steps longer than the
   life of an invitation *)

\* A week and a minute pass: every invitation issued before is past expiry
WeekPasses ==
    /\ now < MaxWeeks * (InvitationTtl + 1)
    /\ now' = now + InvitationTtl + 1
    /\ UNCHANGED <<organizations, users, verifications, sessions, invitations,
                   activities, outbox, rate, nextId, req, last>>

NextInvite ==
    \/ OrgCreateBegin
    \/ OrgCreateCommit
    \/ OrgInvite
    \/ OrgAccept
    \/ OrgCancel
    \/ WeekPasses

SpecInvite == Init /\ [][NextInvite]_vars

-----------------------------------------------------------------------------
(* The browser of one signup: the organization signup form and the
   verification view.  The handlers of the two pages await a call of the
   server; each is a step that makes the call and a step that continues with
   the answer.  While the browser is the only caller, `last` is what it
   received last, and after its own step what it did last: the place it
   navigated to is in redirectTo, "" when it stayed where it was. *)

\* `/verify-request?email=...&org=true`
VerifyView == "/verify-request?org=true"

\* `/login?email=...&verified=true`
LoginView == "/login"

DashboardView == "/dashboard"

\* The browser's record of its own step
Navigation(op, email, status, to) ==
    [Response(op, [NoArgs EXCEPT !.email = email], 0, status, "", 0, to)
        EXCEPT !.seq = last.seq]

\* The browser awaits no answer
Settled ==
    /\ req[1] = Idle
    /\ last.op \notin {"createOrganizationWithAdmin", "POST",
                       "verifyOrganizationSignup"}

\* onSubmit up to its await: the call of createOrganizationWithAdmin
onSubmit(values, code) ==
    /\ Settled
    /\ ProvisionBegin(1, "10.0.0.1", FALSE, values, code)

\* onSubmit after its await, with every result taken for a success
onSubmitThen_AlwaysProceeds ==
    /\ req[1] = Idle
    /\ last.op = "createOrganizationWithAdmin"
    /\ last' = Navigation("onSubmit", last.args.email, "success", VerifyView)
    /\ UNCHANGED <<organizations, users, verifications, sessions, invitations,
                   activities, outbox, rate, now, nextId, req>>

\* onSubmit after its await: router.push to the verification view with the
\* org flag on a success, a toast and no navigation otherwise
onSubmitThen ==
    /\ req[1] = Idle
    /\ last.op = "createOrganizationWithAdmin"
    /\ last' = IF last.status = "success"
               THEN Navigation("onSubmit", last.args.email, "success",
                               VerifyView)
               ELSE Navigation("onSubmit", last.args.email, "error", "")
    /\ UNCHANGED <<organizations, users, verifications, sessions, invitations,
                   activities, outbox, rate, now, nextId, req>>

\* The browser shows the verification view with the org flag and an email
AtVerifyView ==
    \/ last.op = "onSubmit" /\ last.redirectTo = VerifyView
    \/ last.op = "verifyOtp" /\ last.redirectTo = ""

\* verifyOtp up to its await, isOrganizationSignup branch: the fetch of
\* /api/auth/verify-organization-signup, answered by the route handler or by
\* the plugin endpoint registered under the same path
verifyOtp(otp) ==
    /\ req[1] = Idle
    /\ AtVerifyView
    /\ otp # ""
    /\ \/ POST(last.args.email, otp)
       \/ verifyOrganizationSignup(last.args.email, otp)

\* verifyOtp after its await: on response.ok and data.success the location
\* becomes data.redirectTo, or the login page when the answer has none;
\* otherwise a toast, and the view stays
verifyOtpThen ==
    /\ last.op \in {"POST", "verifyOrganizationSignup"}
    /\ last' = IF last.http = 200 /\ last.status = "success"
               THEN Navigation("verifyOtp", last.args.email, "success",
                               IF last.redirectTo # "" THEN last.redirectTo
                                                       ELSE LoginView)
               ELSE Navigation("verifyOtp", last.args.email, "error", "")
    /\ UNCHANGED <<organizations, users, verifications, sessions, invitations,
                   activities, outbox, rate, now, nextId, req>>

FlowValues ==
    {Payload("acme-corp", "ada@acme.com", 2, TRUE),
     Payload("beta", "bo@beta.io", 2, TRUE),
     Payload("beta", "bo@beta.io", 2, FALSE)}

FlowSubmit == \E values \in FlowValues, code \in Codes : onSubmit(values, code)

FlowTx == \E failAt \in {0, 2} : ProvisionTx(1, failAt)

FlowSendEmail == \E throws \in BOOLEAN : ProvisionSendEmail(1, throws)

FlowVerify == \E otp \in Codes \cup BadCodes : verifyOtp(otp)

NextFlow ==
    \/ FlowSubmit
    \/ FlowTx
    \/ FlowSendEmail
    \/ onSubmitThen
    \/ FlowVerify
    \/ verifyOtpThen

SpecFlow == Init /\ [][NextFlow]_vars

-----------------------------------------------------------------------------
(* Two exchanges at once: one signup, and in each slot a verification
   request for its email, with either handler and any interleaving of their
   statements *)

RaceFind ==
    \E p \in Slots, op \in {"POST", "verifyOrganizationSignup"},
       code \in Codes \cup BadCodes :
        ExchangeFind(p, op, "ada@acme.com", code)

RaceUpdate == \E p \in Slots : ExchangeUpdate(p)

RaceDelete == \E p \in Slots : ExchangeDelete(p)

RaceCreateSession == \E p \in Slots : ExchangeCreateSession(p)

NextExchange ==
    \/ VerifyBegin
    \/ SignupTx
    \/ SignupSendEmail
    \/ RaceFind
    \/ RaceUpdate
    \/ RaceDelete
    \/ RaceCreateSession

SpecExchange == Init /\ [][NextExchange]_vars

-----------------------------------------------------------------------------
(* Vocabulary of the properties *)

Provisioning == "createOrganizationWithAdmin"

\* This step is a handler returning a response for op
Returned(op) == last'.seq # last.seq /\ last'.op = op

\* This step is createOrganizationWithAdmin returning before its transaction
ReturnedEarly == Returned(Provisioning) /\ req' = req

\* This step is slot p passing the checks, running the transaction, sending
Proceeds(p) == req[p] = Idle /\ req'[p] # Idle /\ req'[p].pc = "tx"
RunsTx(p) == req[p].pc = "tx" /\ req'[p] # req[p]
Sends(p) == req[p].pc = "email" /\ req'[p] # req[p]

StoreUnchanged ==
    UNCHANGED <<organizations, users, verifications, sessions, invitations,
                activities>>

PayloadValid(a) ==
    a.maxSeats >= 1 /\ a.maxSeats <= 1000 /\ a.acceptTerms

\* S1 is S plus exactly one new row, and that row satisfies P
AddsOne(S, S1, P(_)) ==
    \E r \in S1 : r \notin S /\ S1 = S \cup {r} /\ P(r)

-----------------------------------------------------------------------------
(* C1: a valid signup payload with an unused slug and admin email, within the
   rate limit, creates exactly one Organization (TRIAL), one User (OWNER,
   unverified, member of the new organization), one Verification row for
   the admin email and one OrganizationActivity row, and calls the email
   client exactly once.  Stated per step: such a call is never turned away
   by the checks; its transaction adds exactly these four rows; the step
   after it makes exactly one send and returns success; and no step of the
   call adds anything else. *)
C1_NotTurnedAway ==
    ReturnedEarly /\ last'.message # MsgBlocked =>
        ~ (/\ PayloadValid(last'.args)
           /\ ~ SlugTaken(organizations, last'.args.slug)
           /\ ~ EmailTaken(users, last'.args.email)
           /\ Attempts(rate, Fingerprint(last'.args.ip), now) < RateMax)

C1_TxRows(p) ==
    LET v == req[p].values
        IsOrg(o) == o.status = "TRIAL" /\ o.slug = v.organizationSlug
        IsOwner(u) ==
            /\ u.email = v.adminEmail
            /\ u.organizationRole = "OWNER"
            /\ u.emailVerified = FALSE
            /\ \E o \in organizations' \ organizations :
                   u.organizationId = o.id
        IsCode(c) == c.identifier = v.adminEmail
        IsLog(a) ==
            \E o \in organizations' \ organizations : a.organizationId = o.id
    IN /\ AddsOne(organizations, organizations', IsOrg)
       /\ AddsOne(users, users', IsOwner)
       /\ AddsOne(verifications, verifications', IsCode)
       /\ AddsOne(activities, activities', IsLog)
       /\ outbox' = outbox
       /\ req'[p].pc = "email"

C1_OneSend(p) ==
    /\ Len(outbox') = Len(outbox) + 1
    /\ SubSeq(outbox', 1, Len(outbox)) = outbox
    /\ outbox'[Len(outbox')].to = req[p].values.adminEmail
    /\ StoreUnchanged
    /\ Returned(Provisioning)
    /\ last'.status = "success"

C1_Step ==
    /\ C1_NotTurnedAway
    /\ \A p \in Slots :
        /\ Proceeds(p) => StoreUnchanged /\ outbox' = outbox
        /\ (RunsTx(p)
              /\ ~ SlugTaken(organizations, req[p].values.organizationSlug)
              /\ ~ EmailTaken(users, req[p].values.adminEmail))
           => C1_TxRows(p)
        /\ Sends(p) => C1_OneSend(p)

C5_Step ==
    /\ (ReturnedEarly
          /\ Attempts(rate, Fingerprint(last'.args.ip), now) >= 3)
       => /\ last'.status = "error"
          /\ last'.message = MsgTooMany
          /\ StoreUnchanged
          /\ outbox' = outbox
    /\ \A p \in Slots :
          Proceeds(p) =>
              Attempts(rate, Fingerprint(req'[p].args.ip), now) < 3

C5_FourthAttemptDenied == [][C5_Step]_vars

C5_Witness ==
    /\ last.op = Provisioning
    /\ last.message = MsgTooMany
    /\ \E f \in Fingerprints : rate[f].count = 3 /\ rate[f].win = WindowOf(now)

(* C6: a call whose slug or admin email is already in use returns an error
   result, never reaches the transaction, and leaves every table and the
   outbox unchanged. *)
C6_Step ==
    /\ (ReturnedEarly
          /\ (\/ SlugTaken(organizations, last'.args.slug)
              \/ EmailTaken(users, last'.args.email)))
       => /\ last'.status = "error"
          /\ StoreUnchanged
          /\ outbox' = outbox
    /\ \A p \in Slots :
          Proceeds(p) =>
              /\ ~ SlugTaken(organizations, req'[p].values.organizationSlug)
              /\ ~ EmailTaken(users, req'[p].values.adminEmail)

C6_TakenSlugOrEmailRejected == [][C6_Step]_vars

C6_Witness ==
    /\ last.op = Provisioning
    /\ last.status = "error"
    /\ last.message = MsgSlugTaken
    /\ last.args.slug = "acme-corp"
    /\ SlugTaken(organizations, "acme-corp")

-----------------------------------------------------------------------------
(* Properties of the verification exchange *)

VerifyOps == {"POST", "verifyOrganizationSignup"}

\* This step is one of the two exchange handlers returning
Exchanged == last'.seq # last.seq /\ last'.op \in VerifyOps

Verified(us, email) == \E u \in us : u.email = email /\ u.emailVerified

RowsFor(vs, email, code) ==
    {v \in vs : v.identifier = email /\ v.value = code}

(* C2: a Verification row is single-use.  An exchange that succeeds was
   made with the email and code of a row whose expiry is in the future; after
   it the user of that email is verified and no row with that email and code
   is left.  Every later exchange for that email with a well-formed code,
   the used one included, fails with the invalid/expired error and changes
   no row. *)
C2_Step ==
    LET e == last'.args.email
        c == last'.args.code
    IN /\ (Exchanged /\ last'.http = 200) =>
             /\ \E v \in RowsFor(verifications, e, c) : v.expiresAt > now
             /\ Verified(users', e)
             /\ RowsFor(verifications', e, c) = {}
       /\ (Exchanged /\ Verified(users, e) /\ Len(c) = 6) =>
             /\ last'.http = 400
             /\ last'.message = MsgInvalidCode
             /\ StoreUnchanged

C2_VerificationIsSingleUse == [][C2_Step]_vars

C2_Witness ==
    /\ last.op \in VerifyOps
    /\ last.http = 400
    /\ last.message = MsgInvalidCode
    /\ Verified(users, last.args.email)
    /\ \E i \in 1..Len(outbox) :
          outbox[i].to = last.args.email /\ outbox[i].code = last.args.code

(* C9: an exchange fails with one message and status, "Invalid or expired
   verification code" and 400, whether the code is wrong, the row is past its
   expiresAt or the row was already used, and then leaves the User,
   Verification and Session rows as they were. *)
C9_WrongCode(e, c) == RowsFor(verifications, e, c) = {}

C9_Expired(e, c) ==
    /\ RowsFor(verifications, e, c) # {}
    /\ \A v \in RowsFor(verifications, e, c) : v.expiresAt <= now

C9_Used(e, c) == Verified(users, e)

C9_Step ==
    LET e == last'.args.email
        c == last'.args.code
    IN (Exchanged /\ Len(c) = 6
          /\ (C9_WrongCode(e, c) \/ C9_Expired(e, c) \/ C9_Used(e, c)))
       => /\ last'.http = 400
          /\ last'.status = "error"
          /\ last'.message = MsgInvalidCode
          /\ UNCHANGED <<users, verifications, sessions>>

C9_OneErrorForEveryFailure == [][C9_Step]_vars

C9_Witness ==
    /\ last.op \in VerifyOps
    /\ last.http = 400
    /\ last.message = MsgInvalidCode
    /\ \E v \in RowsFor(verifications, last.args.email, last.args.code) :
          v.expiresAt <= now

(* C10: every successful exchange of the organization-signup path sets
   emailVerified, deletes the Verification row, creates a Session row of
   that user expiring 30 days later and sets the session cookie to that
   session's token. *)
C10_Step ==
    LET e == last'.args.email
        c == last'.args.code
    IN (Exchanged /\ last'.http = 200) =>
          /\ Verified(users', e)
          /\ RowsFor(verifications', e, c) = {}
          /\ \E s \in sessions' \ sessions :
                /\ \E u \in users : u.email = e /\ s.userId = u.id
                /\ s.expiresAt = now + 30 * 24 * 60
                /\ last'.cookie = s.token

C10_EverySuccessMintsSession == [][C10_Step]_vars

-----------------------------------------------------------------------------
(* Properties of the transaction *)

\* The rows of the signup made for admin email e
SignupUsers(e) == {u \in users : u.email = e}

SignupOrgs(e) ==
    {o \in organizations : \E u \in SignupUsers(e) : o.ownerId = u.id}

SignupLogs(e) ==
    {a \in activities :
        /\ a.action = "organization_created"
        /\ \E u \in SignupUsers(e) : a.userId = u.id}

SignupCodes(e) == {v \in verifications : v.identifier = e}

(* C7 as stated: in every reachable state the Organization, its OWNER User,
   the Verification row and the organization_created Activity row of one
   signup either all exist or none exists. *)
C7_AllOrNothing ==
    \A e \in AdminEmails :
        \/ /\ SignupUsers(e) = {} /\ SignupOrgs(e) = {}
           /\ SignupLogs(e) = {} /\ SignupCodes(e) = {}
        \/ /\ SignupUsers(e) # {} /\ SignupOrgs(e) # {}
           /\ SignupLogs(e) # {} /\ SignupCodes(e) # {}

(* C7 as amended: in every reachable state, also after any statement of the
   transaction has thrown, the Organization, its OWNER User and the
   organization_created Activity row of one signup either all exist or none
   exists; the Verification row exists only together with them, and is
   missing beside them only once the user has been marked verified. *)
C7_AllOrNothingUntilExchanged ==
    \A e \in AdminEmails :
        \/ /\ SignupUsers(e) = {} /\ SignupOrgs(e) = {}
           /\ SignupLogs(e) = {} /\ SignupCodes(e) = {}
        \/ /\ SignupUsers(e) # {} /\ SignupOrgs(e) # {}
           /\ SignupLogs(e) # {}
           /\ (SignupCodes(e) = {} => Verified(users, e))

C7_Witness ==
    /\ last.op = Provisioning
    /\ last.message = MsgFailed
    /\ outbox = <<>>
    /\ organizations = {}
    /\ nextId > 4

-----------------------------------------------------------------------------
(* C8: organization slugs are unique in every reachable state, also when two
   requests with one slug are both past the lookup before either inserts;
   the provisioning request that inserts second returns an error result and
   has created no row and sent nothing. *)
C8_SlugsUnique ==
    \A o1 \in organizations, o2 \in organizations :
        o1.slug = o2.slug => o1 = o2

C8_Step ==
    \A p \in Slots :
        (RunsTx(p)
           /\ SlugTaken(organizations, req[p].values.organizationSlug))
        => /\ Returned(Provisioning)
           /\ last'.status = "error"
           /\ StoreUnchanged
           /\ outbox' = outbox
           /\ req'[p] = Idle

C8_SlugUniqueUnderRace == [][C8_SlugsUnique' /\ C8_Step]_vars

C8_Witness ==
    /\ last.op = Provisioning
    /\ last.message = MsgUnique
    /\ SlugTaken(organizations, last.args.slug)
    /\ C8_SlugsUnique

-----------------------------------------------------------------------------
(* Properties of membership *)

Members(orgId) == {u \in users : u.organizationId = orgId}

(* C3: in every reachable state every organization has at most maxSeats
   members. *)
C3_SeatsRespected ==
    \A o \in organizations : Cardinality(Members(o.id)) <= o.maxSeats

(* C4: in every reachable state every organization has at most one member
   whose organizationRole is OWNER. *)
C4_AtMostOneOwner ==
    \A o \in organizations :
        Cardinality({u \in Members(o.id) : u.organizationRole = "OWNER"}) <= 1

-----------------------------------------------------------------------------
(* Vocabulary of the membership properties: the requests of SpecOrg, and
   what a step leaves alone *)

AnyCaller == Callers \cup {0}

\* The caller is a member of an organization that has no free seat
SeatsFull(caller) ==
    \E u \in UserById(caller) :
        \E o \in OrgById(u.organizationId) :
            MemberCount(users, o.id) >= o.maxSeats

Rejected(op) == last'.op = op /\ last'.status = "error"

(* C11: an inviteMember call by a member of an organization whose member
   count is at least maxSeats is rejected with an error (the seat-limit
   message when the caller may invite at all) and creates no
   OrganizationInvitation and no OrganizationActivity row. *)
C11_Outcome(caller) ==
    /\ Rejected("inviteMember")
    /\ (\E u \in UserById(caller) : CanManage(u))
         => last'.http = 400 /\ last'.message = MsgSeatLimit
    /\ invitations' = invitations
    /\ activities' = activities

C11_InviteAtSeatLimitRejected ==
    \A caller \in AnyCaller :
        SeatsFull(caller) =>
            \A email \in Invitees, role \in Roles :
                ~ENABLED (inviteMember(caller, email, role)
                            /\ ~C11_Outcome(caller))

C11_Witness ==
    /\ last.op = "inviteMember"
    /\ last.message = MsgSeatLimit
    /\ \E o \in organizations : MemberCount(users, o.id) >= o.maxSeats
    /\ invitations # {}

\* The caller's organization has a PENDING invitation for the email
HasPending(caller, email) ==
    \E u \in UserById(caller) :
        \E i \in InvitationFor(invitations, u.organizationId, email) :
            i.status = "PENDING"

C12_Outcome(caller) ==
    /\ Rejected("inviteMember")
    /\ ((\E u \in UserById(caller) : CanManage(u)) /\ ~SeatsFull(caller))
         => last'.http = 400 /\ last'.message = MsgAlreadyInvited
    /\ invitations' = invitations

(* C12: in every reachable state no two PENDING invitations have the same
   organizationId and email, and an inviteMember call for an email that has
   a PENDING invitation in the caller's organization is rejected with an
   error and creates no invitation. *)
C12_OnePendingPerPair ==
    /\ \A i1 \in invitations, i2 \in invitations :
           (/\ i1.organizationId = i2.organizationId
            /\ i1.email = i2.email
            /\ i1.status = "PENDING"
            /\ i2.status = "PENDING") => i1 = i2
    /\ \A caller \in AnyCaller, email \in Invitees :
           HasPending(caller, email) =>
               \A role \in Roles :
                   ~ENABLED (inviteMember(caller, email, role)
                               /\ ~C12_Outcome(caller))

C12_Witness ==
    /\ last.op = "inviteMember"
    /\ last.message = MsgAlreadyInvited
    /\ \E i \in invitations : i.status = "PENDING"

Terminal == {"ACCEPTED", "REJECTED", "EXPIRED"}

\* What a step may do to invitation i: keep it, or move it out of PENDING
\* by the one operation that leads to the new status
C13_Moves(i, i2) ==
    \/ i2 = i
    \/ /\ i.status = "PENDING"
       /\ i2 = [i EXCEPT !.status = i2.status]
       /\ \/ /\ i2.status = "ACCEPTED"
             /\ last'.op = "acceptInvitation" /\ last'.http = 200
          \/ /\ i2.status = "REJECTED"
             /\ last'.op = "cancelInvitation" /\ last'.http = 200
          \/ /\ i2.status = "EXPIRED"
             /\ last'.op = "acceptInvitation"
             /\ last'.message = MsgExpired
             /\ now > i.expiresAt

C13_Step ==
    \/ invitations' = invitations
    \/ /\ \A i \in invitations :
             \E i2 \in invitations' : i2.id = i.id /\ C13_Moves(i, i2)
       /\ \A i2 \in invitations' :
             (\A i \in invitations : i.id # i2.id) => i2.status = "PENDING"

(* C13: an invitation is created PENDING; a step changes the status of an
   invitation only from PENDING, to ACCEPTED by a successful accept, to
   REJECTED by a successful cancel, to EXPIRED by an accept attempted after
   expiresAt; an ACCEPTED, REJECTED or EXPIRED invitation is never changed
   by any invite, accept or cancel. *)
C13_StatusStateMachine == [][C13_Step]_vars

C13_Witness ==
    /\ \E i \in invitations : i.status = "EXPIRED"
    /\ \E i \in invitations : i.status \in {"ACCEPTED", "REJECTED"}
    /\ last.message \in {MsgNotValid, MsgNotPending}

\* The tokens a client may present: those of the invitations, and one that
\* no invitation has
AnyToken == {i.token : i \in invitations} \cup {0}

\* The four guards of acceptInvitation hold for this caller and token
C14_Guards(caller, token) ==
    \E i \in InvitationByToken(token), u \in UserById(caller) :
        /\ i.status = "PENDING"
        /\ ~(now > i.expiresAt)
        /\ u.email = i.email
        /\ u.organizationId = 0

C14_Outcome(caller, token) ==
    IF C14_Guards(caller, token)
    THEN /\ last'.op = "acceptInvitation" /\ last'.http = 200
         /\ \A i \in InvitationByToken(token) :
               /\ \E u \in users' :
                     /\ u.id = caller
                     /\ u.organizationId = i.organizationId
                     /\ u.organizationRole = i.role
               /\ [i EXCEPT !.status = "ACCEPTED"] \in invitations'
    ELSE /\ Rejected("acceptInvitation")
         /\ users' = users

(* C14: acceptInvitation succeeds exactly when the invitation is PENDING and
   not past expiresAt, the caller's email is the invitation's email and the
   caller has no organization; a success sets the caller's organizationId
   and organizationRole to the invitation's and makes the invitation
   ACCEPTED; a call with a failing guard is rejected and changes no user. *)
C14_AcceptGuards ==
    \A caller \in AnyCaller, token \in AnyToken :
        ~ENABLED (acceptInvitation(caller, token)
                    /\ ~C14_Outcome(caller, token))

C14_Witness ==
    /\ last.op = "acceptInvitation"
    /\ last.http = 200
    /\ \E i \in invitations, u \in users :
          /\ i.status = "ACCEPTED"
          /\ i.role = "ADMIN"
          /\ u.id = last.args.caller
          /\ u.email = i.email
          /\ u.organizationId = i.organizationId
          /\ u.organizationRole = "ADMIN"

\* Invitation i is PENDING and past its expiresAt
Lapsed(i) == i.status = "PENDING" /\ now > i.expiresAt

C15_Marked(i) ==
    /\ Rejected("acceptInvitation")
    /\ last'.http = 400 /\ last'.message = MsgExpired
    /\ invitations' = (invitations \ {i}) \cup {[i EXCEPT !.status = "EXPIRED"]}
    /\ users' = users
    /\ activities' = activities

C15_Refused ==
    /\ Rejected("acceptInvitation")
    /\ invitations' = invitations
    /\ users' = users
    /\ activities' = activities

\* In this state: a caller with a session who presents the token of a lapsed
\* invitation gets it marked EXPIRED and an error, and nobody is accepted
\* with the token of an EXPIRED invitation
C15_Now ==
    \A i \in invitations :
        /\ Lapsed(i) =>
              \A caller \in Callers :
                  ~ENABLED (acceptInvitation(caller, i.token)
                              /\ ~C15_Marked(i))
        /\ i.status = "EXPIRED" =>
              \A caller \in AnyCaller :
                  ~ENABLED (acceptInvitation(caller, i.token)
                              /\ ~C15_Refused)

\* An EXPIRED invitation stays as it is, so the refusal holds from then on
C15_Stays ==
    \A i \in invitations : i.status = "EXPIRED" => i \in invitations'

(* C15: an acceptInvitation call (by a caller with a session) with the token
   of a PENDING invitation whose expiresAt has passed marks the invitation
   EXPIRED, returns 400 "Invitation has expired" and changes no user and no
   activity row; the invitation stays EXPIRED, and every later accept with
   its token is rejected and changes nothing. *)
C15_LazyExpiry == [](C15_Now) /\ [][C15_Stays]_vars

C15_Witness ==
    /\ last.op = "acceptInvitation"
    /\ last.message = MsgNotValid
    /\ \E i \in invitations : i.status = "EXPIRED"
    /\ \A i \in invitations : i.status \in {"EXPIRED", "PENDING"}

C16_Outcome ==
    /\ Rejected("acceptInvitation")
    /\ last'.http = 404 /\ last'.message = MsgInvalidInvitation
    /\ users' = users
    /\ invitations' = invitations
    /\ activities' = activities

(* C16: an acceptInvitation call (by a caller with a session) whose token is
   the token of no invitation row returns 404 "Invalid invitation" and
   changes no User, OrganizationInvitation or OrganizationActivity row. *)
C16_UnknownTokenNotFound ==
    \A caller \in Callers, token \in 0..MaxId :
        (\A i \in invitations : i.token # token) =>
            ~ENABLED (acceptInvitation(caller, token) /\ ~C16_Outcome)

C16_Witness ==
    /\ last.op = "acceptInvitation"
    /\ last.http = 404
    /\ \E i \in invitations : i.status = "PENDING"

C17_Outcome ==
    /\ Rejected("leaveOrganization")
    /\ last'.http = 400 /\ last'.message = MsgOwnerCannotLeave
    /\ users' = users
    /\ activities' = activities

(* C17: every leaveOrganization call by a user whose organizationRole is
   OWNER is rejected (400, "Organization owner cannot leave...") and changes
   no user row, so not the caller's organizationId and organizationRole,
   and no activity row. *)
C17_OwnerCannotLeave ==
    \A u \in users :
        u.organizationRole = "OWNER" =>
            ~ENABLED (leaveOrganization(u.id) /\ ~C17_Outcome)

C17_Witness ==
    /\ last.op = "leaveOrganization"
    /\ last.message = MsgOwnerCannotLeave
    /\ \E u \in users : u.organizationRole = "OWNER"

C18_Outcome(u) ==
    LET Left(r) == /\ r.action = "member_left"
                   /\ r.organizationId = u.organizationId
                   /\ r.userId = u.id
    IN /\ last'.op = "leaveOrganization" /\ last'.http = 200
       /\ users' = (users \ {u}) \cup
                     {[u EXCEPT !.organizationId = 0,
                                !.organizationRole = "NONE",
                                !.joinedOrganizationAt = -1]}
       /\ AddsOne(activities, activities', Left)
       /\ organizations' = organizations

(* C18: a leaveOrganization call by a member whose role is not OWNER sets
   that user's organizationId, organizationRole and joinedOrganizationAt to
   null, adds exactly one member_left activity row of that user for the
   organization left, and changes no other user row and no organization
   row. *)
C18_LeaveFrame ==
    \A u \in users :
        (u.organizationId # 0 /\ u.organizationRole # "OWNER") =>
            ~ENABLED (leaveOrganization(u.id) /\ ~C18_Outcome(u))

C18_Witness ==
    /\ last.op = "leaveOrganization"
    /\ last.http = 200
    /\ \E u \in users : u.id = last.args.caller /\ u.organizationId = 0
    /\ \E r \in activities :
          r.action = "member_left" /\ r.userId = last.args.caller
    /\ \E u \in users : u.organizationRole = "OWNER"

C19_Outcome(caller) ==
    /\ last'.http = 200 =>
          \E u \in UserById(caller) :
              /\ u.organizationId # 0
              /\ u.organizationRole \in {"OWNER", "ADMIN"}
    /\ (\E u \in UserById(caller) : u.organizationRole = "MEMBER") =>
          /\ Rejected("inviteMember")
          /\ last'.http = 403 /\ last'.message = MsgForbidden
          /\ invitations' = invitations
          /\ activities' = activities

(* C19: an inviteMember call succeeds only when the caller is a member of an
   organization with organizationRole OWNER or ADMIN; a caller whose role
   is MEMBER gets 403 "Insufficient permissions" and no
   OrganizationInvitation and no OrganizationActivity row is created. *)
C19_InviteRoleGate ==
    \A caller \in AnyCaller, email \in Invitees, role \in Roles :
        ~ENABLED (inviteMember(caller, email, role) /\ ~C19_Outcome(caller))

C19_Witness ==
    /\ last.op = "inviteMember"
    /\ last.http = 403
    /\ \E u \in users : u.organizationRole = "MEMBER"
    /\ \E i \in invitations : i.status = "ACCEPTED"

\* The caller may remove the target: OWNER or ADMIN of an organization that
\* the target is a member of, and the target is no OWNER
C20_Guards(caller, memberId) ==
    \E u \in UserById(caller), m \in UserById(memberId) :
        /\ u.organizationId # 0
        /\ u.organizationRole \in {"OWNER", "ADMIN"}
        /\ m.organizationId = u.organizationId
        /\ m.organizationRole # "OWNER"

C20_Outcome(caller, memberId) ==
    IF C20_Guards(caller, memberId)
    THEN /\ last'.op = "removeMember" /\ last'.http = 200
         /\ \A m \in UserById(memberId) :
               users' = (users \ {m}) \cup
                          {[m EXCEPT !.organizationId = 0,
                                     !.organizationRole = "NONE",
                                     !.joinedOrganizationAt = -1]}
    ELSE /\ Rejected("removeMember")
         /\ users' = users
         /\ activities' = activities

(* C20: removeMember clears the target's organization fields exactly when
   the caller is OWNER or ADMIN of an organization, the target is a member
   of that organization and the target's role is not OWNER; every other
   call is rejected, changes no user row and adds no activity row. *)
C20_RemoveGuards ==
    \A caller \in AnyCaller, memberId \in AnyCaller :
        ~ENABLED (removeMember(caller, memberId)
                    /\ ~C20_Outcome(caller, memberId))

C20_Witness ==
    /\ last.op = "removeMember"
    /\ last.http = 200
    /\ \E m \in users : m.id = last.args.memberId /\ m.organizationId = 0
    /\ \E r \in activities :
          r.action = "member_removed" /\ r.entityId = last.args.memberId

-----------------------------------------------------------------------------
(* Properties of the session composer *)

Composed == last'.op = "hooks.after"

C21_Expected(u) ==
    CASE u.role = "admin" -> "admin"
      [] u.role # "admin" /\ u.organizationRole = "OWNER" -> "org_owner"
      [] u.role # "admin" /\ u.organizationRole = "ADMIN" -> "org_admin"
      [] u.role # "admin" /\ u.organizationRole = "MEMBER" -> "org_member"
      [] OTHER -> "individual"

(* C21: for every user, the composer run for a session of that user sets
   combinedRole to "admin" when the system role is admin, whatever the
   organization role; otherwise to org_owner, org_admin or org_member for
   organizationRole OWNER, ADMIN or MEMBER; and to "individual" for a user
   with neither. *)
C21_CombinedRolePriority ==
    \A u \in users :
        ~ENABLED (hooksAfter(u.id)
                    /\ ~(Composed
                           /\ last'.user.combinedRole = C21_Expected(u)))

C21_Witness ==
    /\ last.op = "hooks.after"
    /\ last.user.combinedRole = "admin"
    /\ \E u \in users :
          /\ u.id = last.user.id
          /\ u.role = "admin"
          /\ u.organizationRole = "OWNER"
    /\ \E u \in users : u.role # "admin" /\ u.organizationRole = "ADMIN"

C22_Outcome(u) ==
    /\ Composed
    /\ {"organizationId", "organization", "combinedRole"}
          \subseteq DOMAIN last'.user
    /\ IF u.organizationId # 0
       THEN /\ last'.user.organizationId = u.organizationId
            /\ last'.user.organization.id = u.organizationId
            /\ last'.user.organization.usedSeats =
                  Cardinality({m \in users :
                                  m.organizationId = u.organizationId})
       ELSE /\ last'.user.organizationId = 0
            /\ last'.user.organization = NoOrganization

(* C22: the composer run for a session of any user puts organizationId,
   organization and combinedRole on the session's user object; for a user
   with an organization, organization.usedSeats is the number of users whose
   organizationId is that organization in the state the composer runs in;
   for a user without one, organizationId and organization are null. *)
C22_SessionCarriesOrganization ==
    \A u \in users : ~ENABLED (hooksAfter(u.id) /\ ~C22_Outcome(u))

C22_Witness ==
    /\ last.op = "hooks.after"
    /\ last.user.organizationId # 0
    /\ last.user.organization.usedSeats = 2
    /\ last.user.organization.usedSeats =
          Cardinality({m \in users :
                          m.organizationId = last.user.organizationId})

-----------------------------------------------------------------------------
(* Properties of error handling *)

(* C23: every handler ends with a response value, also when a persistence
   or email operation inside it throws: no step ends with an exception
   leaving the handler. *)
C23_NoUncaughtException == last.status # "threw"

C24_Outcome(p) ==
    LET e == req[p].values.adminEmail
    IN /\ Returned(Provisioning)
       /\ last'.status = "error" /\ last'.message = MsgFailed
       /\ Len(outbox') = Len(outbox) + 1
       /\ req'[p] = Idle
       /\ StoreUnchanged
       /\ SignupUsers(e) # {} /\ SignupOrgs(e) # {} /\ SignupLogs(e) # {}
       /\ (SignupCodes(e) # {} \/ Verified(users, e))

(* C24: when the email send throws after the provisioning transaction has
   committed, createOrganizationWithAdmin returns the generic error result;
   the send was called once and the call is over, so nothing is sent again;
   the step changes no table, and the Organization, User and Activity rows
   of the signup are in the store, with the Verification row unless the
   code has been exchanged in the meantime. *)
C24_SendFailureAfterCommit ==
    \A p \in Slots :
        req[p].pc = "email" =>
            ~ENABLED (ProvisionSendEmail(p, TRUE) /\ ~C24_Outcome(p))

C24_Witness ==
    /\ last.op = Provisioning
    /\ last.message = MsgFailed
    /\ outbox # <<>>
    /\ outbox[Len(outbox)].to = last.args.email
    /\ SignupUsers(last.args.email) # {}
    /\ SignupCodes(last.args.email) # {}
    /\ \A p \in Slots : req[p] = Idle

-----------------------------------------------------------------------------
(* Properties of the session gate *)

C25_Outcome ==
    /\ last'.http = 401
    /\ last'.status = "error" /\ last'.message = MsgUnauthorized
    /\ UNCHANGED <<users, organizations, invitations, activities>>

(* C25: a call of any /organization/* endpoint without a session user id
   returns 401 "Unauthorized" and changes no User, Organization,
   OrganizationInvitation or OrganizationActivity row. *)
C25_SessionRequired ==
    /\ \A p \in Slots, slug \in Slugs, seats \in {0, 2} :
          ~ENABLED (createOrganizationBegin(p, 0, slug, seats)
                      /\ ~C25_Outcome)
    /\ \A email \in Invitees, role \in Roles :
          ~ENABLED (inviteMember(0, email, role) /\ ~C25_Outcome)
    /\ \A token \in AnyToken :
          ~ENABLED (acceptInvitation(0, token) /\ ~C25_Outcome)
    /\ ~ENABLED (leaveOrganization(0) /\ ~C25_Outcome)
    /\ \A memberId \in AnyCaller :
          ~ENABLED (removeMember(0, memberId) /\ ~C25_Outcome)
    /\ \A seats \in {1, 3} :
          ~ENABLED (updateOrganization(0, seats) /\ ~C25_Outcome)
    /\ \A invitationId \in {i.id : i \in invitations} \cup {0} :
          ~ENABLED (cancelInvitation(0, invitationId) /\ ~C25_Outcome)

C25_Witness ==
    /\ last.op = "cancelInvitation"
    /\ last.http = 401
    /\ \E i \in invitations : i.status = "PENDING"
    /\ Cardinality({u \in users : u.organizationId # 0}) >= 2

-----------------------------------------------------------------------------
(* C26 *)

\* This step is the browser continuing after the answer to its verification
VerifyAnswered == last.op \in VerifyOps /\ last'.op = "verifyOtp"

\* C26 as stated: a successful organization verification always ends with a
\* redirect to the dashboard.
C26_EndsAtDashboard ==
    [][(VerifyAnswered /\ last.http = 200 /\ last.status = "success")
        => last'.redirectTo = DashboardView]_vars

\* C26, amended: the browser enters the verification view with the org flag
\* exactly on a success of createOrganizationWithAdmin, calls the verification
\* endpoint only from that view and for the email of that signup, whose
\* organization, admin and rows the provisioning has committed, and after a
\* successful verification it navigates to the login page, with the route
\* handler's answer and with the plugin endpoint's alike; it navigates to the
\* dashboard in no step.
C26_FlowOrder ==
    /\ [](last.redirectTo # DashboardView)
    /\ [][/\ (last.op = Provisioning /\ last'.op = "onSubmit")
               => /\ last'.args.email = last.args.email
                  /\ (last.status = "success") = (last'.redirectTo = VerifyView)
                  /\ (last.status # "success") = (last'.redirectTo = "")
          /\ (last'.op \in VerifyOps /\ last.op \notin VerifyOps)
               => /\ AtVerifyView
                  /\ last'.args.email = last.args.email
                  /\ \E u \in UserByEmail(last.args.email) :
                        /\ u.organizationRole = "OWNER"
                        /\ OrgById(u.organizationId) # {}
          /\ VerifyAnswered
               => /\ last'.args.email = last.args.email
                  /\ (last.http = 200 /\ last.status = "success")
                        = (last'.redirectTo = LoginView)
                  /\ (last.http # 200 \/ last.status # "success")
                        = (last'.redirectTo = "")]_vars

\* The browser is at the login page after a verification that the plugin
\* endpoint answered with a session cookie and no redirectTo
C26_Witness ==
    /\ last.op = "verifyOtp"
    /\ last.status = "success"
    /\ last.redirectTo = LoginView
    /\ sessions # {}

-----------------------------------------------------------------------------
(* C27 *)

\* The exchange in slot p has answered success for Verification row vid
Succeeded(p, vid) ==
    /\ req[p].pc = "returned"
    /\ req[p].http = 200
    /\ req[p].verificationId = vid

\* The exchange in slot p has found row vid and is past its lookup
Presented(p, vid) ==
    /\ req[p].pc \in {"update", "delete", "session", "returned"}
    /\ req[p].verificationId = vid

(* C27: of two exchanges that run at the same time and have both found the
   same Verification row, with either handler in either slot and in any
   interleaving of their statements, at most one answers success; and no user
   has more than one Session, where every user has had one Verification row
   at most. *)
C27_AtMostOneSuccess ==
    /\ \A vid \in 1..(MaxId + 3) : ~(Succeeded(1, vid) /\ Succeeded(2, vid))
    /\ \A u \in users :
          Cardinality({s \in sessions : s.userId = u.id}) <= 1

\* Both exchanges found the row; the plugin endpoint answered success with
\* the one session and the other exchange answered 500
C27_Witness ==
    \E vid \in 1..(MaxId + 3) :
        /\ Succeeded(1, vid)
        /\ Presented(2, vid)
        /\ req[2].pc = "returned"
        /\ req[2].http = 500
        /\ Cardinality(sessions) = 1

-----------------------------------------------------------------------------
(* C28 *)

C28_Outcome(caller, email) ==
    /\ last'.http = 200
    /\ \E i \in invitations' \ invitations :
          /\ invitations' = invitations \cup {i}
          /\ i.email = email /\ i.status = "PENDING"
          /\ i.expiresAt = now + InvitationTtl
          /\ \E u \in UserById(caller) : i.organizationId = u.organizationId
    /\ \E a \in activities' \ activities :
          /\ activities' = activities \cup {a}
          /\ a.action = "member_invited"

(* C28 as stated: an inviteMember call that passes every guard (a session, a
   caller in an organization with role OWNER or ADMIN, a free seat, an
   invitee who is no member, no PENDING invitation for the pair) answers 200,
   adds one PENDING invitation that expires 7 days later and one
   member_invited activity row, also when an ACCEPTED, REJECTED or EXPIRED
   invitation for the same organization and email exists. *)
C28_InviteAfterTerminalInvitation ==
    \A caller \in AnyCaller, email \in Invitees, role \in Roles :
        InviteCheck(caller, email) = ""
            => ~ENABLED (inviteMember(caller, email, role)
                           /\ ~C28_Outcome(caller, email))

-----------------------------------------------------------------------------
(* C29 *)

\* The owner that o.ownerId names is a member of o with role OWNER
OwnerIsMember(o) ==
    \E u \in users :
        /\ u.id = o.ownerId
        /\ u.organizationId = o.id
        /\ u.organizationRole = "OWNER"

(* C29 as stated: in every reachable state, the ownerId of every
   Organization names a User whose organizationId is that organization and
   whose organizationRole is OWNER. *)
C29_OwnerIsMember == \A o \in organizations : OwnerIsMember(o)

-----------------------------------------------------------------------------
(* C30 *)

\* The user row was written by createOrganizationWithAdmin: the accounts that
\* exist at the start have other addresses, and no endpoint writes an email
Provisioned(u) == u.email \in AdminEmails

\* u owns the organization it is in by /organization/create, or it accepted
\* an invitation to it with role OWNER
OwnerByCreateOrInvitation(u) ==
    \/ \E o \in organizations : o.id = u.organizationId /\ o.ownerId = u.id
    \/ \E i \in invitations :
          /\ i.organizationId = u.organizationId
          /\ i.email = u.email
          /\ i.role = "OWNER"
          /\ i.status = "ACCEPTED"

(* C30: every user written by createOrganizationWithAdmin has system role
   admin, and every run of the session composer for such a user gives
   combinedRole "admin"; a run of the composer gives "org_owner" only for a
   user who was not provisioned, whose system role is not admin, and who is
   OWNER by /organization/create or by an accepted OWNER invitation. *)
C30_ProvisionedOwnerIsAdmin ==
    \A u \in users :
        /\ Provisioned(u)
              => /\ u.role = "admin"
                 /\ ~ENABLED (hooksAfter(u.id)
                                /\ ~(Composed
                                       /\ last'.user.combinedRole = "admin"))
        /\ ENABLED (hooksAfter(u.id) /\ last'.user.combinedRole = "org_owner")
              => /\ ~Provisioned(u)
                 /\ u.role # "admin"
                 /\ u.organizationRole = "OWNER"
                 /\ OwnerByCreateOrInvitation(u)

\* The composer has run for the provisioned owner, beside an owner by
\* /organization/create and an owner by invitation
C30_Witness ==
    /\ last.op = "hooks.after"
    /\ \E u \in users :
          /\ Provisioned(u)
          /\ u.organizationRole = "OWNER"
          /\ last.user.id = u.id
          /\ last.user.combinedRole = "admin"
    /\ \E u \in users, o \in organizations :
          ~Provisioned(u) /\ o.ownerId = u.id /\ o.id = u.organizationId
    /\ \E u \in users, o \in organizations :
          /\ u.organizationRole = "OWNER"
          /\ u.organizationId = o.id
          /\ o.ownerId # u.id

====
